---- MODULE Spec2Model ----
(***************************************************************************)
(* Remote vector index build service: request admission (JobService),      *)
(* request store (InMemoryRequestStore), memory ledger (ResourceManager)   *)
(* and worker pool (WorkflowExecutor).                                     *)
(*                                                                         *)
(* Strings that take part in job identity (vector_path, tenant_id) are     *)
(* sequences of text pieces; the string they stand for is the              *)
(* concatenation of the pieces.  The pieces "a", "-" and ".knnvec" start   *)
(* with different characters and none is a prefix of another, so two       *)
(* sequences are equal exactly when the strings they stand for are equal.  *)
(*                                                                         *)
(* Memory amounts are exact numbers in units of 1/20 byte (the estimator   *)
(* multiplies by 1.1 and by 1.5); time is in whole seconds.                *)
(***************************************************************************)
EXTENDS Integers, Sequences, FiniteSets, TLC

VARIABLES
    now,            \* datetime.now(timezone.utc), in seconds
    ttl_seconds,    \* InMemoryRequestStore._ttl_seconds (set = FALSE: None)
    max_size,       \* InMemoryRequestStore._max_size
    store,          \* InMemoryRequestStore._store: job_id -> (job, timestamp)
    available_gpu,  \* ResourceManager._available_gpu_memory
    available_cpu,  \* ResourceManager._available_cpu_memory
    total_gpu,      \* ResourceManager._total_gpu_memory
    total_cpu,      \* ResourceManager._total_cpu_memory
    queue,          \* work queue of the ThreadPoolExecutor
    worker,         \* position of each pool thread in _execute_workflow
    caller,         \* position of each request thread in create_job
    ncalls,         \* number of create_job calls started so far
    applied,        \* history: outcome updates applied to each stored record
    held,           \* ledger clients of the ResourceManager on its own
    probe,          \* pair of requests whose identities are compared
    shutdown,       \* ThreadPoolExecutor shutdown: "running", "called", "returned"
    futures,        \* history: workflows submitted before shutdown was called
    inserted,       \* history: the create_job call that inserted each stored record
    last,           \* last operation of a client of the store on its own
    reader,         \* a request thread in get_status: its position and its Job object
    estimate        \* a call of calculate_memory_requirements: its request and result

vars == <<now, ttl_seconds, max_size, store, available_gpu, available_cpu, total_gpu,
          total_cpu, queue, worker, caller, ncalls, applied, held, probe,
          shutdown, futures, inserted, last, reader,
          estimate>>

ledgerVars == <<available_gpu, available_cpu, total_gpu, total_cpu>>

serviceVars == <<now, ttl_seconds, max_size, store, queue, worker, caller, ncalls, applied,
                 shutdown, futures, inserted>>

----------------------------------------------------------------------------
(* Bounds of the model *)

MaxTime == 1
MaxCalls == 2
MaxUpdates == 2
MaxAmount == 2
MaxPathLen == 4
MaxTenantLen == 2

(* Configuration (Settings) used by the model *)

max_workers == 2
request_store_max_size == 2
TtlSeconds == 1
MaxDimension == 3
MaxDocCount == 4
MaxDegree == 16
gpu_memory_limit == 50000
cpu_memory_limit == 34000
LedgerGpu == 3
LedgerCpu == 2
SmallStoreSize == 1

None == "None"

RUNNING == "RUNNING_INDEX_BUILD"
FAILED == "FAILED_INDEX_BUILD"
COMPLETED == "COMPLETED_INDEX_BUILD"

Callers == {"t1", "t2"}
Workers == 1..max_workers
Clients == {"c1", "c2", "c3"}

----------------------------------------------------------------------------
(* Request parameters and job identity *)

Alphabet == {"a", "-", ".knnvec"}

SeqsUpTo(S, n) == UNION {[1..k -> S] : k \in 0..n}

\* VectorPathRegex: pattern ".+\.knnvec$"
VectorPathRegex(s) == Len(s) >= 2 /\ s[Len(s)] = ".knnvec"

create_request_parameters(p) ==
    [vector_path |-> p.vector_path, tenant_id |-> p.tenant_id]

\* RequestParameters.__str__: f"{self.vector_path}-{self.tenant_id}"
RequestParametersStr(rp) == rp.vector_path \o <<"-">> \o rp.tenant_id

\* RequestParameters.__eq__: equality of the string forms
RequestParametersEq(a, b) == RequestParametersStr(a) = RequestParametersStr(b)

\* hashlib.sha256(...).hexdigest(): a digest that is different for
\* different inputs
sha256_hexdigest(s) == [sha256 |-> s]

generate_job_id(rp) == sha256_hexdigest(RequestParametersStr(rp))

NoId == [sha256 |-> <<>>]

----------------------------------------------------------------------------
(* Memory estimate, in units of 1/20 byte *)

\* DataType.get_size(): FLOAT is 4 bytes per element
get_size(data_type) == IF data_type = "float" THEN 4 ELSE 0

calculate_memory_requirements(p) ==
    LET m == p.m
        entry_size == get_size(p.data_type)
        vector_dimensions == p.dimension
        num_vectors == p.doc_count
        \* d * n * entry_size                      (times 20)
        vector_memory == vector_dimensions * num_vectors * entry_size * 20
        \* ((d * entry_size + m * 8) * 1.1 * n) * 1.5   (times 20)
        index_gpu_memory ==
            (vector_dimensions * entry_size + m * 8) * 33 * num_vectors
        \* (d * entry_size + m * 8) * 1.1 * n      (times 20)
        index_cpu_memory ==
            (vector_dimensions * entry_size + m * 8) * 22 * num_vectors
    IN  [gpu |-> index_gpu_memory + vector_memory,
         cpu |-> index_cpu_memory + vector_memory]

\* The build requests the model submits
ReqA == [vector_path |-> <<"a", ".knnvec">>, tenant_id |-> <<>>,
         dimension |-> 3, doc_count |-> 5, m |-> 16, data_type |-> "float"]
ReqB == [vector_path |-> <<"a", ".knnvec">>, tenant_id |-> <<"a">>,
         dimension |-> 2, doc_count |-> 2, m |-> 16, data_type |-> "float"]
Requests == {ReqA, ReqB}

\* a third request: used by the clients of the store on its own, and the
\* earlier request of the hash collision; the service is not sent it
ReqC == [vector_path |-> <<"-", ".knnvec">>, tenant_id |-> <<>>,
         dimension |-> 2, doc_count |-> 2, m |-> 16, data_type |-> "float"]

----------------------------------------------------------------------------
(* ResourceManager *)

\* allocate without the availability check
allocate_unchecked(avail_gpu, avail_cpu, gpu_memory, cpu_memory) ==
    [ok |-> TRUE, gpu |-> avail_gpu - gpu_memory, cpu |-> avail_cpu - cpu_memory]

\* allocate that checks the GPU amount only
allocate_gpu_checked(avail_gpu, avail_cpu, gpu_memory, cpu_memory) ==
    IF ~(avail_gpu >= gpu_memory)
    THEN [ok |-> FALSE, gpu |-> avail_gpu, cpu |-> avail_cpu]
    ELSE [ok |-> TRUE, gpu |-> avail_gpu - gpu_memory, cpu |-> avail_cpu - cpu_memory]

allocate(avail_gpu, avail_cpu, gpu_memory, cpu_memory) ==
    IF ~(avail_gpu >= gpu_memory /\ avail_cpu >= cpu_memory)
    THEN [ok |-> FALSE, gpu |-> avail_gpu, cpu |-> avail_cpu]
    ELSE [ok |-> TRUE, gpu |-> avail_gpu - gpu_memory, cpu |-> avail_cpu - cpu_memory]

\* release that gives nothing back
release_nothing(avail_gpu, avail_cpu, gpu_memory, cpu_memory) ==
    [gpu |-> avail_gpu, cpu |-> avail_cpu]

\* release that gives back the GPU amount only
release_gpu_only(avail_gpu, avail_cpu, gpu_memory, cpu_memory) ==
    [gpu |-> avail_gpu + gpu_memory, cpu |-> avail_cpu]

release(avail_gpu, avail_cpu, gpu_memory, cpu_memory) ==
    [gpu |-> avail_gpu + gpu_memory, cpu |-> avail_cpu + cpu_memory]

----------------------------------------------------------------------------
(* InMemoryRequestStore *)

NoParameters == [vector_path |-> <<>>, tenant_id |-> <<>>]

\* what get returns when it returns None
NoJob == [id |-> NoId, status |-> None, request_parameters |-> NoParameters,
          file_name |-> None, error_message |-> None]

\* Job(id=job_id, status=JobStatus.RUNNING, request_parameters=...)
Job(job_id, status, request_parameters) ==
    [id |-> job_id, status |-> status, request_parameters |-> request_parameters,
     file_name |-> None, error_message |-> None]

Without(st, job_id) == [k \in DOMAIN st \ {job_id} |-> st[k]]

\* add that, when the store is full, also drops the entry under the key
add_refused_drops(st, job_id, job) ==
    IF Cardinality(DOMAIN st) >= max_size
    THEN [ok |-> FALSE, store |-> Without(st, job_id)]
    ELSE [ok |-> TRUE,
          store |-> [k \in DOMAIN st \cup {job_id} |->
                        IF k = job_id THEN [job |-> job, timestamp |-> now]
                        ELSE st[k]]]

\* add without the capacity check
add_unbounded(st, job_id, job) ==
    [ok |-> TRUE,
     store |-> [k \in DOMAIN st \cup {job_id} |->
                   IF k = job_id THEN [job |-> job, timestamp |-> now]
                   ELSE st[k]]]

\* add that keeps one slot free
add_refuses_early(st, job_id, job) ==
    IF Cardinality(DOMAIN st) + 1 >= max_size
    THEN [ok |-> FALSE, store |-> st]
    ELSE [ok |-> TRUE,
          store |-> [k \in DOMAIN st \cup {job_id} |->
                        IF k = job_id THEN [job |-> job, timestamp |-> now]
                        ELSE st[k]]]

add(st, job_id, job) ==
    IF Cardinality(DOMAIN st) >= max_size
    THEN [ok |-> FALSE, store |-> st]
    ELSE [ok |-> TRUE,
          store |-> [k \in DOMAIN st \cup {job_id} |->
                        IF k = job_id THEN [job |-> job, timestamp |-> now]
                        ELSE st[k]]]

\* a get that still returns an entry whose age equals the TTL
Unexpired_up_to_ttl(timestamp) ==
    \/ ~ttl_seconds.set
    \/ (ttl_seconds.seconds # 0 /\ now - timestamp <= ttl_seconds.seconds)

\* a get that measures the age of an entry when no TTL is configured
Unexpired_always_timed(timestamp) ==
    ttl_seconds.seconds # 0 /\ now - timestamp < ttl_seconds.seconds

\* the condition under which get returns the stored job
\* (self._ttl_seconds is None or (self._ttl_seconds and now - timestamp < ttl))
Unexpired(timestamp) ==
    \/ ~ttl_seconds.set
    \/ (ttl_seconds.seconds # 0 /\ now - timestamp < ttl_seconds.seconds)

get(st, job_id) ==
    IF job_id \in DOMAIN st
    THEN IF Unexpired(st[job_id].timestamp)
         THEN [found |-> TRUE, job |-> st[job_id].job, store |-> st]
         ELSE [found |-> FALSE, job |-> NoJob, store |-> Without(st, job_id)]
    ELSE [found |-> FALSE, job |-> NoJob, store |-> st]

\* get_jobs of the store: all jobs, with job ids as keys and Job objects as
\* values (declared in RequestStore)
get_jobs(st) == [job_id \in DOMAIN st |-> st[job_id].job]

\* an update that writes the status and no other field
Patched_status_only(job, data) ==
    [f \in DOMAIN job |-> IF f = "status" /\ f \in DOMAIN data THEN data[f] ELSE job[f]]

\* for key, value in data.items(): setattr(job, key, value)
Patched(job, data) ==
    [f \in DOMAIN job |-> IF f \in DOMAIN data THEN data[f] ELSE job[f]]

\* an update that stores the record with the time of the update
update_refreshes_timestamp(st, job_id, data) ==
    IF job_id \notin DOMAIN st
    THEN [ok |-> FALSE, store |-> st]
    ELSE [ok |-> TRUE,
          store |-> [st EXCEPT ![job_id] =
                        [job |-> Patched(st[job_id].job, data),
                         timestamp |-> now]]]

update(st, job_id, data) ==
    IF job_id \notin DOMAIN st
    THEN [ok |-> FALSE, store |-> st]
    ELSE [ok |-> TRUE,
          store |-> [st EXCEPT ![job_id] =
                        [job |-> Patched(st[job_id].job, data),
                         timestamp |-> st[job_id].timestamp]]]

\* delete that reports the entry but leaves it in the map
delete_keeps(st, job_id) == [ok |-> job_id \in DOMAIN st, store |-> st]

delete(st, job_id) ==
    IF job_id \in DOMAIN st
    THEN [ok |-> TRUE, store |-> Without(st, job_id)]
    ELSE [ok |-> FALSE, store |-> st]

\* a sweep that spares the jobs that are still running
cleanup_expired_spares_running(st) ==
    LET expiration_threshold == now - ttl_seconds.seconds
    IN  [k \in {j \in DOMAIN st : \/ st[j].timestamp > expiration_threshold
                                  \/ st[j].job.status = RUNNING} |-> st[k]]

cleanup_expired(st) ==
    LET expiration_threshold == now - ttl_seconds.seconds
    IN  [k \in {j \in DOMAIN st : st[j].timestamp > expiration_threshold} |-> st[k]]

\* history of outcome updates, kept for the records that are in the store
Carry(hist, st) == [k \in DOMAIN st |-> IF k \in DOMAIN hist THEN hist[k] ELSE 0]

\* history of who inserted each record, kept for the records in the store
Kept(hist, st) == [k \in DOMAIN st \cap DOMAIN hist |-> hist[k]]

----------------------------------------------------------------------------
(* State of the threads *)

NoParams == [vector_path |-> <<>>, tenant_id |-> <<>>,
             dimension |-> 0, doc_count |-> 0, m |-> 0, data_type |-> "float"]

BuildWorkflow(job_id, gpu_mem, cpu_mem, index_build_parameters) ==
    [job_id |-> job_id, gpu_memory_required |-> gpu_mem,
     cpu_memory_required |-> cpu_mem,
     index_build_parameters |-> index_build_parameters]

NoWorkflow == BuildWorkflow(NoId, 0, 0, NoParams)

\* what run_tasks hands back: TaskResult(file_name=...) after an upload, or
\* TaskResult(error=str(e)) from its except clause
TaskResults ==
    {[file_name |-> "a.faiss", error |-> None],
     [file_name |-> None, error |-> "engine error"]}

NoTaskResult == [file_name |-> None, error |-> None]

\* an adapter that loses the engine's error on the failure path
build_index_drops_error(result) ==
    IF result.file_name \in {None, ""}
    THEN [raised |-> FALSE, success |-> FALSE, index_path |-> None, msg |-> None]
    ELSE [raised |-> FALSE, success |-> TRUE, index_path |-> result.file_name,
          msg |-> None]

\* if not result.file_name: return False, None, result.error
\* return True, result.file_name, None
build_index(result) ==
    IF result.file_name \in {None, ""}
    THEN [raised |-> FALSE, success |-> FALSE, index_path |-> None,
          msg |-> result.error]
    ELSE [raised |-> FALSE, success |-> TRUE, index_path |-> result.file_name,
          msg |-> None]

\* the adapter raising before or around run_tasks
Raised == [raised |-> TRUE, success |-> FALSE, index_path |-> None,
           msg |-> "exception text"]

\* a call of build_index_fn: the engine returns a result, or the call raises
BuildRuns ==
    {[raised |-> FALSE, result |-> r] : r \in TaskResults}
        \cup {[raised |-> TRUE, result |-> NoTaskResult]}

\* what build_index_fn can do: return (True, file name, None), return
\* (False, None, error), or raise
BuildOutcomes == {build_index(r) : r \in TaskResults} \cup {Raised}

NoOutcome == [raised |-> FALSE, success |-> FALSE, index_path |-> None, msg |-> None]

NoResult == [kind |-> "none", job_id |-> NoId, detail |-> None]

\* no answer of POST /_build yet
NoResponse == [status_code |-> 0, job_id |-> NoId]

IdleCaller == [pc |-> "idle", params |-> NoParams, job_id |-> NoId,
               result |-> NoResult, submitted |-> FALSE, overlap |-> {},
               calls |-> 0, evicted |-> FALSE, response |-> NoResponse,
               added_at |-> 0, raced |-> FALSE]

IdleWorker == [pc |-> "idle", workflow |-> NoWorkflow, outcome |-> NoOutcome,
               deleted |-> FALSE, key |-> 0, result |-> NoTaskResult]

IdleClient == [pc |-> "idle", gpu |-> 0, cpu |-> 0, unmatched |-> FALSE]

NoProbe == [a |-> NoParameters, b |-> NoParameters, id_a |-> NoId, id_b |-> NoId,
            eq |-> TRUE]

\* no operation of a store client yet
NoOperation == [op |-> "none", job_id |-> NoId, ok |-> FALSE, removed |-> FALSE,
                code |-> 0, task_status |-> None, file_name |-> None,
                error_message |-> None, swept |-> {}]

\* no call of calculate_memory_requirements yet
NoEstimate == [params |-> NoParams, done |-> FALSE, gpu |-> 0, cpu |-> 0]

\* no GET /_status under way
NoReader == [pc |-> "idle", job_id |-> NoId, code |-> 0, task_status |-> None,
             file_name |-> None, error_message |-> None, versions |-> {},
             job |-> NoJob, stored |-> FALSE, removed |-> FALSE]

InFlight(t) == caller[t].pc \in {"add", "allocate", "rollback", "submit"}

\* comparison that reports every pair of parameters as matching
compare_always_matches(job, other) == TRUE

\* comparison of the stored parameters with the vector path alone
compare_vector_path_only(job, other) ==
    RequestParametersStr(job.request_parameters) = other.vector_path

\* compare_request_parameters
compare_request_parameters(job, other) ==
    RequestParametersEq(job.request_parameters, other)

\* POST /_build: 429 for HashCollisionError, 507 for CapacityError, the job
\* id with 200 when create_job returns; any other exception is not caught
\* and the server answers 500
create_job_route_swapped(result) ==
    IF result.kind = "job_id"
    THEN [status_code |-> 200, job_id |-> result.job_id]
    ELSE IF result.kind = "HashCollisionError"
    THEN [status_code |-> 507, job_id |-> NoId]
    ELSE IF result.kind = "CapacityError"
    THEN [status_code |-> 429, job_id |-> NoId]
    ELSE [status_code |-> 500, job_id |-> NoId]

create_job_route(result) ==
    IF result.kind = "job_id"
    THEN [status_code |-> 200, job_id |-> result.job_id]
    ELSE IF result.kind = "HashCollisionError"
    THEN [status_code |-> 429, job_id |-> NoId]
    ELSE IF result.kind = "CapacityError"
    THEN [status_code |-> 507, job_id |-> NoId]
    ELSE [status_code |-> 500, job_id |-> NoId]

----------------------------------------------------------------------------
(* JobService.create_job, one action per store or ledger operation *)

\* create_request_parameters, generate_job_id, _validate_job_existence
CreateJobValidate(t, p) ==
    /\ caller[t].pc \in {"idle", "done"}
    /\ ncalls < MaxCalls
    /\ LET request_parameters == create_request_parameters(p)
           job_id == generate_job_id(request_parameters)
           g == get(store, job_id)
           peers == {u \in Callers \ {t} :
                        InFlight(u) /\ caller[u].job_id = job_id}
           mine == [pc |-> "add", params |-> p, job_id |-> job_id,
                    result |-> NoResult, submitted |-> FALSE, overlap |-> peers,
                    calls |-> caller[t].calls + 1, evicted |-> g.store # store,
                    response |-> NoResponse, added_at |-> 0,
                    raced |-> peers # {}]
           ended ==
               IF ~g.found THEN mine
               ELSE IF compare_request_parameters(g.job, request_parameters)
               THEN [mine EXCEPT !.pc = "done",
                        !.result = [kind |-> "job_id", job_id |-> job_id,
                                    detail |-> None],
                         !.response = create_job_route([kind |-> "job_id", job_id |-> job_id,
                                    detail |-> None])]
               ELSE [mine EXCEPT !.pc = "done",
                        !.result = [kind |-> "HashCollisionError", job_id |-> NoId,
                                    detail |-> None],
                         !.response = create_job_route([kind |-> "HashCollisionError", job_id |-> NoId,
                                    detail |-> None])]
       IN  /\ store' = g.store
           /\ applied' = Carry(applied, g.store)
           /\ inserted' = Kept(inserted, g.store)
           /\ caller' = [u \in Callers |->
                           IF u = t THEN ended
                           ELSE IF u \in peers
                           THEN [caller[u] EXCEPT !.overlap = @ \cup {t},
                                                  !.raced = TRUE]
                           ELSE [caller[u] EXCEPT !.overlap = @ \ {t}]]
    /\ ncalls' = ncalls + 1
    /\ UNCHANGED <<now, ttl_seconds, max_size, queue, worker, ledgerVars, held, probe,
                   shutdown, futures, last, reader, estimate>>

\* _add_to_request_store
CreateJobAdd(t) ==
    /\ caller[t].pc = "add"
    /\ LET job_id == caller[t].job_id
           a == add(store, job_id,
                    Job(job_id, RUNNING, create_request_parameters(caller[t].params)))
       IN  /\ store' = a.store
           /\ applied' = IF a.ok THEN [Carry(applied, a.store) EXCEPT ![job_id] = 0]
                         ELSE applied
           /\ inserted' = IF a.ok
                          THEN [k \in DOMAIN a.store |->
                                   IF k = job_id
                                   THEN [by |-> t, call |-> caller[t].calls]
                                   ELSE inserted[k]]
                          ELSE inserted
           /\ caller' = [caller EXCEPT ![t] =
                  IF a.ok THEN [@ EXCEPT !.pc = "allocate", !.added_at = now]
                  ELSE [@ EXCEPT !.pc = "done", !.evicted = FALSE, !.added_at = 0,
                           !.result = [kind |-> "CapacityError", job_id |-> NoId,
                                       detail |-> "Could not add item to request store"],
                           !.response = create_job_route([kind |-> "CapacityError", job_id |-> NoId,
                                       detail |-> "Could not add item to request store"])]]
    /\ UNCHANGED <<now, ttl_seconds, max_size, queue, worker, ncalls, ledgerVars, held, probe,
                   shutdown, futures, last, reader, estimate>>

\* calculate_memory_requirements and the allocation of _create_workflow
CreateJobAllocate(t) ==
    /\ caller[t].pc = "allocate"
    /\ LET mem == calculate_memory_requirements(caller[t].params)
           al == allocate(available_gpu, available_cpu, mem.gpu, mem.cpu)
       IN  /\ available_gpu' = al.gpu
           /\ available_cpu' = al.cpu
           /\ caller' = [caller EXCEPT ![t].pc = IF al.ok THEN "submit" ELSE "rollback"]
    /\ UNCHANGED <<now, ttl_seconds, max_size, store, applied, queue, worker, ncalls,
                   total_gpu, total_cpu, held, probe, shutdown, futures, inserted, last, reader, estimate>>

\* the failure branch of _create_workflow: delete, then raise CapacityError
CreateJobRollback(t) ==
    /\ caller[t].pc = "rollback"
    /\ LET d == delete(store, caller[t].job_id)
       IN  /\ store' = d.store
           /\ applied' = Carry(applied, d.store)
           /\ inserted' = Kept(inserted, d.store)
    /\ caller' = [caller EXCEPT ![t].pc = "done", ![t].evicted = FALSE,
                     ![t].added_at = 0,
                     ![t].result = [kind |-> "CapacityError", job_id |-> NoId,
                                    detail |-> "Insufficient available resources"],
                         ![t].response = create_job_route([kind |-> "CapacityError", job_id |-> NoId,
                                    detail |-> "Insufficient available resources"])]
    /\ UNCHANGED <<now, ttl_seconds, max_size, queue, worker, ncalls, ledgerVars, held, probe,
                   shutdown, futures, last, reader, estimate>>

\* WorkflowExecutor.submit_workflow, then return job_id; the executor's
\* submit raises RuntimeError once shutdown has been called
CreateJobSubmit(t) ==
    /\ caller[t].pc = "submit"
    /\ IF shutdown = "running"
       THEN /\ LET mem == calculate_memory_requirements(caller[t].params)
               IN  queue' = Append(queue, BuildWorkflow(caller[t].job_id, mem.gpu,
                                                        mem.cpu, caller[t].params))
            /\ futures' = futures \cup {[job_id |-> caller[t].job_id, by |-> t,
                                         call |-> caller[t].calls]}
            /\ caller' = [caller EXCEPT ![t].pc = "done", ![t].evicted = FALSE,
                     ![t].added_at = 0, ![t].submitted = TRUE,
                             ![t].result = [kind |-> "job_id",
                                            job_id |-> caller[t].job_id,
                                            detail |-> None],
                             ![t].response = create_job_route([kind |-> "job_id",
                                            job_id |-> caller[t].job_id,
                                            detail |-> None])]
       ELSE /\ caller' = [caller EXCEPT ![t].pc = "done", ![t].evicted = FALSE,
                     ![t].added_at = 0,
                             ![t].result = [kind |-> "RuntimeError", job_id |-> NoId,
                                            detail |-> "cannot schedule new futures after shutdown"],
                             ![t].response = create_job_route([kind |-> "RuntimeError", job_id |-> NoId,
                                            detail |-> "cannot schedule new futures after shutdown"])]
            /\ UNCHANGED <<queue, futures>>
    /\ UNCHANGED <<now, ttl_seconds, max_size, store, applied, worker, ncalls, ledgerVars,
                   held, probe, shutdown, inserted, last, reader, estimate>>

----------------------------------------------------------------------------
(* WorkflowExecutor._execute_workflow on a pool thread *)

\* an idle pool thread takes the next work item from the executor's queue
\* and enters _execute_workflow with it
WorkerTake(w) ==
    /\ worker[w].pc = "idle"
    /\ queue # <<>>
    /\ worker' = [worker EXCEPT ![w] =
           [pc |-> "allocate", workflow |-> Head(queue), outcome |-> NoOutcome,
            deleted |-> FALSE, key |-> 0, result |-> NoTaskResult]]
    /\ queue' = Tail(queue)
    /\ UNCHANGED <<now, ttl_seconds, max_size, store, applied, caller, ncalls,
                   ledgerVars, held, probe, shutdown, futures, inserted, last, reader,
                   estimate>>

\* if not self._resource_manager.allocate(gpu_memory_required,
\* cpu_memory_required)
WorkerAllocate(w) ==
    /\ worker[w].pc = "allocate"
    /\ LET workflow == worker[w].workflow
           al == allocate(available_gpu, available_cpu,
                          workflow.gpu_memory_required, workflow.cpu_memory_required)
       IN  /\ available_gpu' = al.gpu
           /\ available_cpu' = al.cpu
           /\ worker' = [worker EXCEPT ![w].pc = IF al.ok THEN "build" ELSE "no_memory"]
    /\ queue' = queue
    /\ UNCHANGED <<now, ttl_seconds, max_size, store, applied, caller, ncalls,
                   total_gpu, total_cpu, held, probe, shutdown, futures, inserted, last, reader, estimate>>

\* a refused allocation that is followed by the build
WorkerNoMemory_builds(w) ==
    /\ worker[w].pc = "no_memory"
    /\ LET u == update(store, worker[w].workflow.job_id,
                       [status |-> FAILED,
                        error_message |-> "Worker has not enough memory available at this time"])
       IN  store' = u.store
    /\ worker' = [worker EXCEPT ![w].pc = "build"]
    /\ UNCHANGED <<now, ttl_seconds, max_size, applied, queue, caller, ncalls, ledgerVars,
                   held, probe, shutdown, futures, inserted, last, reader, estimate>>

\* the update and return after a refused allocation
WorkerNoMemory(w) ==
    /\ worker[w].pc = "no_memory"
    /\ LET u == update(store, worker[w].workflow.job_id,
                       [status |-> FAILED,
                        error_message |-> "Worker has not enough memory available at this time"])
       IN  store' = u.store
    /\ worker' = [worker EXCEPT ![w] = IdleWorker]
    /\ UNCHANGED <<now, ttl_seconds, max_size, applied, queue, caller, ncalls, ledgerVars,
                   held, probe, shutdown, futures, inserted, last, reader, estimate>>

\* success, index_path, msg = self._build_index_fn(workflow)
WorkerBuild(w, run) ==
    /\ worker[w].pc = "build"
    /\ worker' = [worker EXCEPT
                     ![w].result = run.result,
                     ![w].outcome = IF run.raised THEN Raised
                                    ELSE build_index(run.result),
                     ![w].pc = IF run.raised THEN "except" ELSE "check"]
    /\ UNCHANGED <<now, ttl_seconds, max_size, store, applied, queue, caller, ncalls,
                   ledgerVars, held, probe, shutdown, futures, inserted, last, reader, estimate>>

\* a worker that issues the update whatever get returns
WorkerCheck_always_updates(w) ==
    /\ worker[w].pc = "check"
    /\ LET g == get(store, worker[w].workflow.job_id)
       IN  /\ store' = g.store
           /\ applied' = Carry(applied, g.store)
           /\ inserted' = Kept(inserted, g.store)
           /\ worker' = [worker EXCEPT ![w].pc = "update", ![w].deleted = ~g.found]
    /\ UNCHANGED <<now, ttl_seconds, max_size, queue, caller, ncalls, ledgerVars, held, probe,
                   shutdown, futures, last, reader, estimate>>

\* if self._request_store.get(workflow.job_id)
WorkerCheck(w) ==
    /\ worker[w].pc = "check"
    /\ LET g == get(store, worker[w].workflow.job_id)
       IN  /\ store' = g.store
           /\ applied' = Carry(applied, g.store)
           /\ inserted' = Kept(inserted, g.store)
           /\ worker' = [worker EXCEPT ![w].pc = IF g.found THEN "update" ELSE "release",
                                       ![w].deleted = ~g.found]
    /\ UNCHANGED <<now, ttl_seconds, max_size, queue, caller, ncalls, ledgerVars, held, probe,
                   shutdown, futures, last, reader, estimate>>

\* the update with the outcome the builder returned
WorkerUpdate(w) ==
    /\ worker[w].pc = "update"
    /\ LET job_id == worker[w].workflow.job_id
           out == worker[w].outcome
           status == IF out.success THEN COMPLETED ELSE FAILED
           u == update(store, job_id,
                       [status |-> status, file_name |-> out.index_path,
                        error_message |-> out.msg])
       IN  /\ store' = u.store
           /\ applied' = IF u.ok THEN [applied EXCEPT ![job_id] = @ + 1] ELSE applied
    /\ worker' = [worker EXCEPT ![w].pc = "release"]
    /\ UNCHANGED <<now, ttl_seconds, max_size, queue, caller, ncalls, ledgerVars, held, probe,
                   shutdown, futures, inserted, last, reader, estimate>>

\* except Exception as e: update with str(e)
WorkerExcept(w) ==
    /\ worker[w].pc = "except"
    /\ LET job_id == worker[w].workflow.job_id
           u == update(store, job_id,
                       [status |-> FAILED, error_message |-> worker[w].outcome.msg])
       IN  /\ store' = u.store
           /\ applied' = IF u.ok THEN [applied EXCEPT ![job_id] = @ + 1] ELSE applied
    /\ worker' = [worker EXCEPT ![w].pc = "release"]
    /\ UNCHANGED <<now, ttl_seconds, max_size, queue, caller, ncalls, ledgerVars, held, probe,
                   shutdown, futures, inserted, last, reader, estimate>>

\* finally: release
WorkerRelease(w) ==
    /\ worker[w].pc = "release"
    /\ LET r == release(available_gpu, available_cpu,
                        worker[w].workflow.gpu_memory_required,
                        worker[w].workflow.cpu_memory_required)
       IN  /\ available_gpu' = r.gpu
           /\ available_cpu' = r.cpu
    /\ worker' = [worker EXCEPT ![w] = IdleWorker]
    /\ UNCHANGED <<now, ttl_seconds, max_size, store, applied, queue, caller, ncalls,
                   total_gpu, total_cpu, held, probe, shutdown, futures, inserted, last, reader, estimate>>

----------------------------------------------------------------------------
(* The cleanup thread and the clock *)

\* one round of _cleanup_loop; the thread exists only when a TTL is set
\* the job ids of the requests the clients send
RequestIds == {generate_job_id(create_request_parameters(p)) : p \in Requests}

\* GET /_status/{job_id} on the running service: JobService.get_job is
\* request_store.get, which removes the entry when it has expired; the
\* answer goes to the client and leaves nothing behind in the service
GetJob(job_id) ==
    /\ LET g == get(store, job_id)
       IN  /\ store' = g.store
           /\ applied' = Carry(applied, g.store)
           /\ inserted' = Kept(inserted, g.store)
    /\ UNCHANGED <<now, ttl_seconds, max_size, queue, worker, caller, ncalls, ledgerVars,
                   held, probe, shutdown, futures, last, reader, estimate>>

CleanupExpired ==
    /\ ttl_seconds.set
    /\ store' = cleanup_expired(store)
    /\ applied' = Carry(applied, store')
    /\ inserted' = Kept(inserted, store')
    /\ UNCHANGED <<now, ttl_seconds, max_size, queue, worker, caller, ncalls, ledgerVars,
                   held, probe, shutdown, futures, last, reader, estimate>>

Tick ==
    /\ now < MaxTime
    /\ now' = now + 1
    /\ UNCHANGED <<ttl_seconds, max_size, store, applied, queue, worker, caller, ncalls,
                   ledgerVars, held, probe, shutdown, futures, inserted, last, reader, estimate>>

----------------------------------------------------------------------------
(* The service *)

Init ==
    /\ now = 0
    /\ ttl_seconds \in {[set |-> FALSE, seconds |-> 0],
                        [set |-> TRUE, seconds |-> TtlSeconds]}
    /\ max_size = request_store_max_size
    /\ store = <<>>
    /\ applied = <<>>
    /\ total_gpu = gpu_memory_limit
    /\ total_cpu = cpu_memory_limit
    /\ available_gpu = gpu_memory_limit
    /\ available_cpu = cpu_memory_limit
    /\ queue = <<>>
    /\ worker = [w \in Workers |-> IdleWorker]
    /\ caller = [t \in Callers |-> IdleCaller]
    /\ ncalls = 0
    /\ held = [c \in Clients |-> IdleClient]
    /\ probe = NoProbe
    /\ shutdown = "running"
    /\ futures = {}
    /\ inserted = <<>>
    /\ last = NoOperation
    /\ reader = NoReader
    /\ estimate = NoEstimate

Next ==
    \/ \E t \in Callers, p \in Requests : CreateJobValidate(t, p)
    \/ \E t \in Callers : CreateJobAdd(t)
    \/ \E t \in Callers : CreateJobAllocate(t)
    \/ \E t \in Callers : CreateJobRollback(t)
    \/ \E t \in Callers : CreateJobSubmit(t)
    \/ \E w \in Workers : WorkerTake(w)
    \/ \E w \in Workers : WorkerAllocate(w)
    \/ \E w \in Workers : WorkerNoMemory(w)
    \/ \E w \in Workers, run \in BuildRuns : WorkerBuild(w, run)
    \/ \E w \in Workers : WorkerCheck(w)
    \/ \E w \in Workers : WorkerUpdate(w)
    \/ \E w \in Workers : WorkerExcept(w)
    \/ \E w \in Workers : WorkerRelease(w)
    \/ \E job_id \in RequestIds : GetJob(job_id)
    \/ CleanupExpired
    \/ Tick

Spec == Init /\ [][Next]_vars

----------------------------------------------------------------------------
(* The service under fair scheduling: a pool thread that can take a step of
   _execute_workflow eventually takes it (the builder returns or raises),
   and a request thread inside create_job eventually takes its next step *)

WorkerStep(w) ==
    \/ WorkerTake(w)
    \/ WorkerAllocate(w)
    \/ WorkerNoMemory(w)
    \/ \E run \in BuildRuns : WorkerBuild(w, run)
    \/ WorkerCheck(w)
    \/ WorkerUpdate(w)
    \/ WorkerExcept(w)
    \/ WorkerRelease(w)

CallerStep(t) ==
    \/ CreateJobAdd(t)
    \/ CreateJobAllocate(t)
    \/ CreateJobRollback(t)
    \/ CreateJobSubmit(t)

Fairness ==
    /\ \A w \in Workers : WF_vars(WorkerStep(w))
    /\ \A t \in Callers : WF_vars(CallerStep(t))

SpecFair == Init /\ [][Next]_vars /\ Fairness

----------------------------------------------------------------------------
(* The ResourceManager on its own: clients that allocate and release *)

\* manager.allocate(allocation_size, allocation_size); a thread that has
\* released without holding (unmatched) does not start again
LedgerAllocate(c, gpu_memory, cpu_memory) ==
    /\ held[c].pc \in {"idle", "released"}
    /\ ~held[c].unmatched
    /\ LET al == allocate(available_gpu, available_cpu, gpu_memory, cpu_memory)
       IN  /\ available_gpu' = al.gpu
           /\ available_cpu' = al.cpu
           /\ held' = [held EXCEPT ![c] =
                  [pc |-> IF al.ok THEN "holding" ELSE "refused",
                   gpu |-> gpu_memory, cpu |-> cpu_memory,
                   unmatched |-> FALSE]]
    /\ UNCHANGED <<serviceVars, total_gpu, total_cpu, probe, last, reader, estimate>>

\* manager.release(allocation_size, allocation_size): the next statement of
\* the thread, whatever allocate returned
LedgerRelease(c) ==
    /\ held[c].pc \in {"holding", "refused"}
    /\ LET r == release(available_gpu, available_cpu, held[c].gpu, held[c].cpu)
       IN  /\ available_gpu' = r.gpu
           /\ available_cpu' = r.cpu
    /\ held' = [held EXCEPT ![c].pc = "released",
                            ![c].unmatched = held[c].pc = "refused"]
    /\ UNCHANGED <<serviceVars, total_gpu, total_cpu, probe, last, reader, estimate>>

InitLedger ==
    /\ now = 0
    /\ ttl_seconds = [set |-> FALSE, seconds |-> 0]
    /\ max_size = request_store_max_size
    /\ store = <<>>
    /\ applied = <<>>
    /\ total_gpu = LedgerGpu
    /\ total_cpu = LedgerCpu
    /\ available_gpu = LedgerGpu
    /\ available_cpu = LedgerCpu
    /\ queue = <<>>
    /\ worker = [w \in Workers |-> IdleWorker]
    /\ caller = [t \in Callers |-> IdleCaller]
    /\ ncalls = 0
    /\ held = [c \in Clients |-> IdleClient]
    /\ probe = NoProbe
    /\ shutdown = "running"
    /\ futures = {}
    /\ inserted = <<>>
    /\ last = NoOperation
    /\ reader = NoReader
    /\ estimate = NoEstimate

NextLedger ==
    \/ \E c \in Clients, g \in 0..MaxAmount, m \in 0..MaxAmount : LedgerAllocate(c, g, m)
    \/ \E c \in Clients : LedgerRelease(c)

SpecLedger == InitLedger /\ [][NextLedger]_vars

----------------------------------------------------------------------------
(* The memory estimate on its own: one request that passes the validation of
   IndexBuildParameters (dimension > 0, doc_count > 1, m any integer) and the
   call of calculate_memory_requirements on it *)

EstimateInputs ==
    {[vector_path |-> <<"a", ".knnvec">>, tenant_id |-> <<>>,
      dimension |-> d, doc_count |-> n, m |-> m, data_type |-> "float"] :
         d \in 1..MaxDimension, n \in 2..MaxDocCount, m \in (-MaxDegree)..MaxDegree}

Estimate ==
    /\ ~estimate.done
    /\ LET mem == calculate_memory_requirements(estimate.params)
       IN  estimate' = [estimate EXCEPT !.done = TRUE, !.gpu = mem.gpu,
                                        !.cpu = mem.cpu]
    /\ UNCHANGED <<serviceVars, ledgerVars, held, probe, last, reader>>

InitEstimate ==
    /\ now = 0
    /\ ttl_seconds = [set |-> FALSE, seconds |-> 0]
    /\ max_size = request_store_max_size
    /\ store = <<>>
    /\ applied = <<>>
    /\ total_gpu = gpu_memory_limit
    /\ total_cpu = cpu_memory_limit
    /\ available_gpu = gpu_memory_limit
    /\ available_cpu = cpu_memory_limit
    /\ queue = <<>>
    /\ worker = [w \in Workers |-> IdleWorker]
    /\ caller = [t \in Callers |-> IdleCaller]
    /\ ncalls = 0
    /\ held = [c \in Clients |-> IdleClient]
    /\ probe = NoProbe
    /\ shutdown = "running"
    /\ futures = {}
    /\ inserted = <<>>
    /\ last = NoOperation
    /\ reader = NoReader
    /\ estimate \in {[NoEstimate EXCEPT !.params = p] : p \in EstimateInputs}

NextEstimate == Estimate

SpecEstimate == InitEstimate /\ [][NextEstimate]_vars

----------------------------------------------------------------------------
(* Job identity on its own: two requests and their job ids *)

VectorPaths == {s \in SeqsUpTo(Alphabet, MaxPathLen) : VectorPathRegex(s)}
TenantIds == SeqsUpTo(Alphabet, MaxTenantLen)
IdentityInputs ==
    {[vector_path |-> v, tenant_id |-> t] : v \in VectorPaths, t \in TenantIds}

Compare(a, b) ==
    /\ probe = NoProbe
    /\ probe' = [a |-> a, b |-> b,
                 id_a |-> generate_job_id(a), id_b |-> generate_job_id(b),
                 eq |-> RequestParametersEq(a, b)]
    /\ UNCHANGED <<serviceVars, ledgerVars, held, last, reader, estimate>>

NextIdentity ==
    /\ probe = NoProbe
    /\ \E a \in IdentityInputs, b \in IdentityInputs : Compare(a, b)

SpecIdentity == InitLedger /\ [][NextIdentity]_vars

----------------------------------------------------------------------------
(* The service with the shutdown of the executor *)

\* WorkflowExecutor.shutdown is entered: ThreadPoolExecutor.shutdown sets
\* the flag that makes submit raise
ShutdownCall ==
    /\ shutdown = "running"
    /\ shutdown' = "called"
    /\ UNCHANGED <<now, ttl_seconds, max_size, store, applied, queue, worker, caller,
                   ncalls, ledgerVars, held, probe, futures, inserted, last, reader, estimate>>

\* a shutdown that does not wait for the pool threads
ShutdownReturn_without_wait ==
    /\ shutdown = "called"
    /\ shutdown' = "returned"
    /\ UNCHANGED <<now, ttl_seconds, max_size, store, applied, queue, worker, caller,
                   ncalls, ledgerVars, held, probe, futures, inserted, last, reader, estimate>>

\* shutdown(wait=True) returns: the pool threads have run every queued work
\* item and have been joined
ShutdownReturn ==
    /\ shutdown = "called"
    /\ queue = <<>>
    /\ \A w \in Workers : worker[w].pc = "idle"
    /\ shutdown' = "returned"
    /\ UNCHANGED <<now, ttl_seconds, max_size, store, applied, queue, worker, caller,
                   ncalls, ledgerVars, held, probe, futures, inserted, last, reader, estimate>>

NextShutdown ==
    \/ Next
    \/ ShutdownCall
    \/ ShutdownReturn

SpecShutdown == Init /\ [][NextShutdown]_vars

----------------------------------------------------------------------------
(* The service with a small store, some time after start-up: the store
   holds the record of a job for ReqA that was added at time 0 and has
   finished, and the ledger is what the earlier jobs have left of it (each
   finished job for ReqA has left the ledger short of its amounts once):
   after one job the record is that of a completed build, to which the
   outcome update was applied; after two, which takes a TTL that evicted
   the first record from the store of one entry, the second job's worker
   was refused the memory, and that update is not an outcome update *)

Earlier == [by |-> "earlier", call |-> 0]

\* the stored record of a job for request p that completed at time 0
Completed(p) ==
    LET request_parameters == create_request_parameters(p)
        job_id == generate_job_id(request_parameters)
    IN  [job |-> [Job(job_id, RUNNING, request_parameters) EXCEPT
                     !.status = COMPLETED, !.file_name = "a.faiss"],
         timestamp |-> 0]

\* the stored record of a job for request p whose worker was refused the
\* memory at time 0
Starved(p) ==
    LET request_parameters == create_request_parameters(p)
        job_id == generate_job_id(request_parameters)
    IN  [job |-> [Job(job_id, RUNNING, request_parameters) EXCEPT
                     !.status = FAILED,
                     !.error_message =
                         "Worker has not enough memory available at this time"],
         timestamp |-> 0]

InitSmallStore ==
    LET job_id == generate_job_id(create_request_parameters(ReqA))
        mem == calculate_memory_requirements(ReqA)
    IN  /\ now = 0
        /\ max_size = SmallStoreSize
        /\ inserted = [k \in {job_id} |-> Earlier]
        /\ futures = {[job_id |-> job_id, by |-> Earlier.by, call |-> Earlier.call]}
        /\ total_gpu = gpu_memory_limit
        /\ total_cpu = cpu_memory_limit
        /\ \E finished \in {1, 2} :
              /\ ttl_seconds \in
                     {[set |-> TRUE, seconds |-> TtlSeconds]}
                     \cup (IF finished = 1 THEN {[set |-> FALSE, seconds |-> 0]}
                           ELSE {})
              /\ store = [k \in {job_id} |->
                             IF finished = 1 THEN Completed(ReqA) ELSE Starved(ReqA)]
              /\ applied = [k \in {job_id} |-> IF finished = 1 THEN 1 ELSE 0]
              /\ available_gpu = gpu_memory_limit - finished * mem.gpu
              /\ available_cpu = cpu_memory_limit - finished * mem.cpu
        /\ queue = <<>>
        /\ worker = [w \in Workers |-> IdleWorker]
        /\ caller = [t \in Callers |-> IdleCaller]
        /\ ncalls = 0
        /\ held = [c \in Clients |-> IdleClient]
        /\ probe = NoProbe
        /\ shutdown = "running"
        /\ last = NoOperation
        /\ reader = NoReader
        /\ estimate = NoEstimate

SpecSmallStore == InitSmallStore /\ [][Next]_vars

----------------------------------------------------------------------------
(* The service configured with limits that a request for ReqA fits once and
   not twice: gpu_memory_limit and cpu_memory_limit equal to the estimate
   for ReqA (a request for ReqB fits twice) *)

InitTightMemory ==
    LET mem == calculate_memory_requirements(ReqA)
    IN  /\ now = 0
        /\ ttl_seconds \in {[set |-> FALSE, seconds |-> 0],
                            [set |-> TRUE, seconds |-> TtlSeconds]}
        /\ max_size = request_store_max_size
        /\ store = <<>>
        /\ applied = <<>>
        /\ inserted = <<>>
        /\ futures = {}
        /\ total_gpu = mem.gpu
        /\ total_cpu = mem.cpu
        /\ available_gpu = mem.gpu
        /\ available_cpu = mem.cpu
        /\ queue = <<>>
        /\ worker = [w \in Workers |-> IdleWorker]
        /\ caller = [t \in Callers |-> IdleCaller]
        /\ ncalls = 0
        /\ held = [c \in Clients |-> IdleClient]
        /\ probe = NoProbe
        /\ shutdown = "running"
        /\ last = NoOperation
        /\ reader = NoReader
        /\ estimate = NoEstimate

SpecTightMemory == InitTightMemory /\ [][Next]_vars

----------------------------------------------------------------------------
(* The service with clients that also send a request whose HNSW degree m is
   negative: AlgorithmParameters declares "m: int = 16" without a lower
   bound, so the request passes validation, and its estimate is negative *)

ReqN == [ReqA EXCEPT !.dimension = 1, !.doc_count = 2, !.m = -16]

NextNegativeDegree ==
    \/ Next
    \/ \E t \in Callers : CreateJobValidate(t, ReqN)

SpecNegativeDegree == Init /\ [][NextNegativeDegree]_vars

----------------------------------------------------------------------------
(* The service after a SHA-256 collision: an earlier job for ReqC has
   completed, and the digest of ReqC's parameters is the digest of ReqA's,
   so the record of that job is stored under the job id of ReqA.  ReqC is
   not sent again, so its digest is not computed in these behaviours. *)

Collided ==
    [Completed(ReqC) EXCEPT
        !.job.id = generate_job_id(create_request_parameters(ReqA))]

InitCollision ==
    LET job_id == generate_job_id(create_request_parameters(ReqA))
        mem == calculate_memory_requirements(ReqC)
    IN  /\ now = 0
        /\ ttl_seconds \in {[set |-> FALSE, seconds |-> 0],
                            [set |-> TRUE, seconds |-> TtlSeconds]}
        /\ max_size = request_store_max_size
        /\ store = [k \in {job_id} |-> Collided]
        /\ applied = [k \in {job_id} |-> 1]
        /\ inserted = [k \in {job_id} |-> Earlier]
        /\ futures = {[job_id |-> job_id, by |-> Earlier.by, call |-> Earlier.call]}
        /\ total_gpu = gpu_memory_limit
        /\ total_cpu = cpu_memory_limit
        /\ available_gpu = gpu_memory_limit - mem.gpu
        /\ available_cpu = cpu_memory_limit - mem.cpu
        /\ queue = <<>>
        /\ worker = [w \in Workers |-> IdleWorker]
        /\ caller = [t \in Callers |-> IdleCaller]
        /\ ncalls = 0
        /\ held = [c \in Clients |-> IdleClient]
        /\ probe = NoProbe
        /\ shutdown = "running"
        /\ last = NoOperation
        /\ reader = NoReader
        /\ estimate = NoEstimate

SpecCollision == InitCollision /\ [][Next]_vars

----------------------------------------------------------------------------
(* The InMemoryRequestStore on its own: clients that call add, get, update
   and delete, the cleanup thread and the clock.  Every method of the store
   runs under the lock of the store, so each call is one step. *)

StoreRequests == Requests \cup {ReqC}

StoreIds == {generate_job_id(create_request_parameters(p)) : p \in StoreRequests}

\* the dictionaries _execute_workflow passes to update
UpdateData ==
    {[status |-> COMPLETED, file_name |-> "a.faiss", error_message |-> None],
     [status |-> FAILED, error_message |-> "exception text"]}

StoreAdd(p) ==
    LET request_parameters == create_request_parameters(p)
        job_id == generate_job_id(request_parameters)
        a == add(store, job_id, Job(job_id, RUNNING, request_parameters))
    IN  /\ store' = a.store
        /\ last' = [NoOperation EXCEPT !.op = "add", !.job_id = job_id, !.ok = a.ok]
        /\ UNCHANGED <<now, ttl_seconds, max_size, applied, queue, worker, caller, ncalls,
                       ledgerVars, held, probe, shutdown, futures, inserted, reader, estimate>>

StoreGet(job_id) ==
    LET g == get(store, job_id)
    IN  /\ store' = g.store
        /\ last' = [NoOperation EXCEPT !.op = "get", !.job_id = job_id, !.ok = g.found,
                                       !.removed = g.store # store,
                                       !.task_status = g.job.status]
        /\ UNCHANGED <<now, ttl_seconds, max_size, applied, queue, worker, caller, ncalls,
                       ledgerVars, held, probe, shutdown, futures, inserted, reader, estimate>>

StoreUpdate(job_id, data) ==
    LET u == update(store, job_id, data)
    IN  /\ store' = u.store
        /\ last' = [NoOperation EXCEPT !.op = "update", !.job_id = job_id, !.ok = u.ok,
                                       !.task_status = data.status]
        /\ UNCHANGED <<now, ttl_seconds, max_size, applied, queue, worker, caller, ncalls,
                       ledgerVars, held, probe, shutdown, futures, inserted, reader, estimate>>

StoreDelete(job_id) ==
    LET d == delete(store, job_id)
    IN  /\ store' = d.store
        /\ last' = [NoOperation EXCEPT !.op = "delete", !.job_id = job_id, !.ok = d.ok,
                                       !.removed = d.store # store]
        /\ UNCHANGED <<now, ttl_seconds, max_size, applied, queue, worker, caller, ncalls,
                       ledgerVars, held, probe, shutdown, futures, inserted, reader, estimate>>

\* one round of _cleanup_loop
StoreCleanup ==
    /\ ttl_seconds.set
    /\ store' = cleanup_expired(store)
    /\ last' = [NoOperation EXCEPT !.op = "cleanup", !.removed = store' # store,
                                   !.swept = {store[k].job.status :
                                                 k \in DOMAIN store \ DOMAIN store'}]
    /\ UNCHANGED <<now, ttl_seconds, max_size, applied, queue, worker, caller, ncalls,
                   ledgerVars, held, probe, shutdown, futures, inserted, reader, estimate>>

InitStore ==
    /\ now = 0
    /\ ttl_seconds \in {[set |-> FALSE, seconds |-> 0],
                        [set |-> TRUE, seconds |-> TtlSeconds]}
    /\ max_size = request_store_max_size
    /\ store = <<>>
    /\ applied = <<>>
    /\ total_gpu = gpu_memory_limit
    /\ total_cpu = cpu_memory_limit
    /\ available_gpu = gpu_memory_limit
    /\ available_cpu = cpu_memory_limit
    /\ queue = <<>>
    /\ worker = [w \in Workers |-> IdleWorker]
    /\ caller = [t \in Callers |-> IdleCaller]
    /\ ncalls = 0
    /\ held = [c \in Clients |-> IdleClient]
    /\ probe = NoProbe
    /\ shutdown = "running"
    /\ futures = {}
    /\ inserted = <<>>
    /\ last = NoOperation
    /\ reader = NoReader
    /\ estimate = NoEstimate

NextStore ==
    \/ \E p \in StoreRequests : StoreAdd(p)
    \/ \E job_id \in StoreIds : StoreGet(job_id)
    \/ \E job_id \in StoreIds, data \in UpdateData : StoreUpdate(job_id, data)
    \/ \E job_id \in StoreIds : StoreDelete(job_id)
    \/ StoreCleanup
    \/ Tick

SpecStore == InitStore /\ [][NextStore]_vars

----------------------------------------------------------------------------
(* GET /_status next to the other threads that use the store, statement by
   statement: get returns the stored Job object itself and releases the
   lock, get_status then reads job.status, job.file_name and
   job.error_message one after the other, and update assigns the keys of
   its dictionary one after the other to the same object while it holds the
   lock.  The other threads are request threads that add and delete, pool
   threads that update, the cleanup thread and the clock.  reader.stored
   says that the Job object the route holds is the one in the store; once
   its entry is deleted, evicted or replaced by an add, the route holds an
   object that no update reaches any more (reader.job).  The request
   thread serves GET /_jobs as well: get_jobs hands it the stored Job
   objects, and json.dumps reads their fields after that call has
   returned. *)

\* the dictionary _execute_workflow passes to update for an outcome
UpdateDataOf(out) ==
    IF out.raised
    THEN [status |-> FAILED, error_message |-> out.msg]
    ELSE [status |-> IF out.success THEN COMPLETED ELSE FAILED,
          file_name |-> out.index_path, error_message |-> out.msg]

\* the fields of a job that GET /_status reports
Reported(job) ==
    [task_status |-> job.status, file_name |-> job.file_name,
     error_message |-> job.error_message]

\* the keys of the dictionary in the order in which update assigns them
KeyOrder == <<"status", "file_name", "error_message">>

\* the position of the first key of data from position i on, 0 for none
NextKeyFrom(data, i) ==
    IF \E j \in i..Len(KeyOrder) : KeyOrder[j] \in DOMAIN data
    THEN CHOOSE j \in i..Len(KeyOrder) :
             /\ KeyOrder[j] \in DOMAIN data
             /\ \A h \in i..(j - 1) : KeyOrder[h] \notin DOMAIN data
    ELSE 0

\* a pool thread is inside update and holds the lock of the store
Updating(w) == worker[w].pc = "setattr"

Locked == \E w \in Workers : Updating(w)

\* the Job object that get returned to the route, as it is now
HeldJob == IF reader.stored THEN store[reader.job_id].job ELSE reader.job

\* the route's hold on its Job object after the store has become st, with
\* new Job objects under the ids in replaced
Holding(st, replaced) ==
    IF reader.stored /\ (reader.job_id \notin DOMAIN st \/ reader.job_id \in replaced)
    THEN [reader EXCEPT !.stored = FALSE, !.job = store[reader.job_id].job]
    ELSE reader

\* add by a request thread: a new Job object under the id, also when the id
\* is stored already
RaceAdd(p) ==
    LET request_parameters == create_request_parameters(p)
        job_id == generate_job_id(request_parameters)
        a == add(store, job_id, Job(job_id, RUNNING, request_parameters))
    IN  /\ ~Locked
        /\ store' = a.store
        /\ reader' = Holding(a.store, IF a.ok THEN {job_id} ELSE {})
        /\ applied' = IF a.ok THEN [Carry(applied, a.store) EXCEPT ![job_id] = 0]
                      ELSE applied
        /\ UNCHANGED <<now, ttl_seconds, max_size, queue, worker, caller, ncalls,
                       ledgerVars, held, probe, shutdown, futures, inserted, last, estimate>>

\* delete by a request thread
RaceDelete(job_id) ==
    LET d == delete(store, job_id)
    IN  /\ ~Locked
        /\ d.ok
        /\ store' = d.store
        /\ reader' = Holding(d.store, {})
        /\ applied' = Carry(applied, d.store)
        /\ UNCHANGED <<now, ttl_seconds, max_size, queue, worker, caller, ncalls,
                       ledgerVars, held, probe, shutdown, futures, inserted, last, estimate>>

\* one round of _cleanup_loop
RaceCleanup ==
    /\ ~Locked
    /\ ttl_seconds.set
    /\ store' = cleanup_expired(store)
    /\ store' # store
    /\ reader' = Holding(store', {})
    /\ applied' = Carry(applied, store')
    /\ UNCHANGED <<now, ttl_seconds, max_size, queue, worker, caller, ncalls,
                   ledgerVars, held, probe, shutdown, futures, inserted, last, estimate>>

\* update of a stored record with the outcome of a workflow: update takes
\* the lock and finds the job (of an id that is not stored it returns False
\* and changes nothing).  At most MaxUpdates updates of one record are
\* followed.
UpdateEnter(w, job_id, out) ==
    /\ ~Locked
    /\ worker[w].pc = "idle"
    /\ job_id \in DOMAIN store
    /\ applied[job_id] < MaxUpdates
    /\ worker' = [worker EXCEPT ![w] =
                     [pc |-> "setattr",
                      workflow |-> BuildWorkflow(job_id, 0, 0, NoParams),
                      outcome |-> out, deleted |-> FALSE,
                      key |-> NextKeyFrom(UpdateDataOf(out), 1),
                      result |-> NoTaskResult]]
    /\ applied' = [applied EXCEPT ![job_id] = @ + 1]
    /\ UNCHANGED <<now, ttl_seconds, max_size, store, queue, caller, ncalls,
                   ledgerVars, held, probe, shutdown, futures, inserted, last, reader, estimate>>

\* one setattr(job, key, value) of update; after the last one update stores
\* the pair and releases the lock
UpdateSetattr(w) ==
    /\ Updating(w)
    /\ LET job_id == worker[w].workflow.job_id
           data == UpdateDataOf(worker[w].outcome)
           key == KeyOrder[worker[w].key]
           job == [store[job_id].job EXCEPT ![key] = data[key]]
           next == IF worker[w].key = Len(KeyOrder) THEN 0
                   ELSE NextKeyFrom(data, worker[w].key + 1)
       IN  /\ store' = [store EXCEPT ![job_id].job = job]
           /\ IF next = 0
              THEN /\ worker' = [worker EXCEPT ![w] = IdleWorker]
                   /\ reader' = IF reader.stored /\ reader.job_id = job_id
                                THEN [reader EXCEPT !.versions = @ \cup {Reported(job)}]
                                ELSE reader
              ELSE /\ worker' = [worker EXCEPT ![w].key = next]
                   /\ UNCHANGED reader
    /\ UNCHANGED <<now, ttl_seconds, max_size, applied, queue, caller, ncalls, ledgerVars,
                   held, probe, shutdown, futures, inserted, last, estimate>>

\* the request thread is not inside a route
Resting == reader.pc \in {"idle", "done", "jobs_done"}

\* GET /_status that answers 200 with a placeholder for a missing job
StatusGetJob_placeholder(job_id) ==
    /\ ~Locked
    /\ Resting
    /\ LET g == get(store, job_id)
       IN  /\ store' = g.store
           /\ reader' = IF g.found
                        THEN [NoReader EXCEPT !.pc = "status", !.job_id = job_id,
                                              !.stored = TRUE,
                                              !.versions = {Reported(g.job)}]
                        ELSE [NoReader EXCEPT !.pc = "done", !.job_id = job_id,
                                              !.code = 200, !.task_status = RUNNING,
                                              !.removed = g.store # store]
    /\ applied' = Carry(applied, store')
    /\ UNCHANGED <<now, ttl_seconds, max_size, queue, worker, caller, ncalls,
                   ledgerVars, held, probe, shutdown, futures, inserted, last, estimate>>

\* job = job_service.get_job(job_id); 404 if not job
StatusGetJob(job_id) ==
    /\ ~Locked
    /\ Resting
    /\ LET g == get(store, job_id)
       IN  /\ store' = g.store
           /\ reader' = IF g.found
                        THEN [NoReader EXCEPT !.pc = "status", !.job_id = job_id,
                                              !.stored = TRUE,
                                              !.versions = {Reported(g.job)}]
                        ELSE [NoReader EXCEPT !.pc = "done", !.job_id = job_id,
                                              !.code = 404,
                                              !.removed = g.store # store]
    /\ applied' = Carry(applied, store')
    /\ UNCHANGED <<now, ttl_seconds, max_size, queue, worker, caller, ncalls,
                   ledgerVars, held, probe, shutdown, futures, inserted, last, estimate>>

\* response_data = {"task_status": job.status}
StatusReadStatus ==
    /\ reader.pc = "status"
    /\ reader' = [reader EXCEPT !.pc = "file_name", !.task_status = HeldJob.status]
    /\ UNCHANGED <<now, ttl_seconds, max_size, store, applied, queue, worker, caller,
                   ncalls, ledgerVars, held, probe, shutdown, futures, inserted, last, estimate>>

\* if job.file_name is not None: response_data["file_name"] = job.file_name
StatusReadFileName ==
    /\ reader.pc = "file_name"
    /\ reader' = [reader EXCEPT !.pc = "error_message", !.file_name = HeldJob.file_name]
    /\ UNCHANGED <<now, ttl_seconds, max_size, store, applied, queue, worker, caller,
                   ncalls, ledgerVars, held, probe, shutdown, futures, inserted, last, estimate>>

\* if job.error_message is not None: ...; return GetStatusResponse
StatusReadErrorMessage ==
    /\ reader.pc = "error_message"
    /\ reader' = [reader EXCEPT !.pc = "done", !.code = 200,
                     !.error_message = HeldJob.error_message,
                     !.stored = FALSE, !.job = NoJob]
    /\ UNCHANGED <<now, ttl_seconds, max_size, store, applied, queue, worker, caller,
                   ncalls, ledgerVars, held, probe, shutdown, futures, inserted, last, estimate>>

\* the requests whose records the threads of the race add, update, delete
\* and ask for
RaceRequests == {ReqA}

RaceIds == {generate_job_id(create_request_parameters(p)) : p \in RaceRequests}

\* jobs = job_service.get_jobs(): the map of the stored Job objects.  The
\* store of these behaviours holds the record of one id at most, so the map
\* holds one job at most.
ListGetJobs ==
    /\ ~Locked
    /\ Resting
    /\ LET jobs == get_jobs(store)
       IN  reader' = IF DOMAIN jobs = {}
                     THEN [NoReader EXCEPT !.pc = "jobs_done", !.code = 200]
                     ELSE LET job_id == CHOOSE k \in DOMAIN jobs : TRUE
                          IN  [NoReader EXCEPT !.pc = "jobs_status",
                                               !.job_id = job_id, !.stored = TRUE,
                                               !.versions = {Reported(jobs[job_id])}]
    /\ UNCHANGED <<now, ttl_seconds, max_size, store, applied, queue, worker, caller,
                   ncalls, ledgerVars, held, probe, shutdown, futures, inserted, last, estimate>>

\* json.dumps(jobs, default=lambda o: o.__dict__): the encoder walks the
\* items of job.__dict__ in the order of the fields of Job; "status"
ListReadStatus ==
    /\ reader.pc = "jobs_status"
    /\ reader' = [reader EXCEPT !.pc = "jobs_file_name", !.task_status = HeldJob.status]
    /\ UNCHANGED <<now, ttl_seconds, max_size, store, applied, queue, worker, caller,
                   ncalls, ledgerVars, held, probe, shutdown, futures, inserted, last, estimate>>

\* the item "file_name" of job.__dict__
ListReadFileName ==
    /\ reader.pc = "jobs_file_name"
    /\ reader' = [reader EXCEPT !.pc = "jobs_error_message",
                     !.file_name = HeldJob.file_name]
    /\ UNCHANGED <<now, ttl_seconds, max_size, store, applied, queue, worker, caller,
                   ncalls, ledgerVars, held, probe, shutdown, futures, inserted, last, estimate>>

\* the item "error_message" of job.__dict__; return of the JSON text
ListReadErrorMessage ==
    /\ reader.pc = "jobs_error_message"
    /\ reader' = [reader EXCEPT !.pc = "jobs_done", !.code = 200,
                     !.error_message = HeldJob.error_message,
                     !.stored = FALSE, !.job = NoJob]
    /\ UNCHANGED <<now, ttl_seconds, max_size, store, applied, queue, worker, caller,
                   ncalls, ledgerVars, held, probe, shutdown, futures, inserted, last, estimate>>

NextStatusRace ==
    \/ \E p \in RaceRequests : RaceAdd(p)
    \/ \E job_id \in RaceIds : RaceDelete(job_id)
    \/ RaceCleanup
    \/ Tick
    \/ \E w \in Workers, job_id \in RaceIds, out \in BuildOutcomes :
           UpdateEnter(w, job_id, out)
    \/ \E w \in Workers : UpdateSetattr(w)
    \/ \E job_id \in RaceIds : StatusGetJob(job_id)
    \/ StatusReadStatus
    \/ StatusReadFileName
    \/ StatusReadErrorMessage
    \/ ListGetJobs
    \/ ListReadStatus
    \/ ListReadFileName
    \/ ListReadErrorMessage

SpecStatusRace == InitStore /\ [][NextStatusRace]_vars

----------------------------------------------------------------------------
(* Properties *)

\* no admitted workflow is queued or running, and no create_job call is
\* under way
Quiescent ==
    /\ queue = <<>>
    /\ \A w \in Workers : worker[w].pc = "idle"
    /\ \A t \in Callers : caller[t].pc \in {"idle", "done"}

\* C1: whenever no admitted workflow is queued or running, the available
\* GPU and CPU memory equal the configured totals.
C1_LedgerRestoredWhenQuiescent ==
    Quiescent => (available_gpu = total_gpu /\ available_cpu = total_cpu)

\* C2: two create_job calls for the same vector_path and tenant_id that
\* overlap in time both return the same job id, and exactly one of them
\* submits a workflow.
C2_ConcurrentDuplicatesSubmitOnce ==
    \A t \in Callers : \A u \in caller[t].overlap :
        (caller[t].pc = "done" /\ caller[u].pc = "done")
        => /\ caller[t].result.kind = "job_id"
           /\ caller[u].result = caller[t].result
           /\ caller[t].submitted # caller[u].submitted

\* C3: two requests get the same job id, and compare equal, if and only if
\* they have the same vector_path and the same tenant_id.
C3_IdentitySeparatesRequests ==
    probe # NoProbe =>
        LET same == /\ probe.a.vector_path = probe.b.vector_path
                    /\ probe.a.tenant_id = probe.b.tenant_id
        IN  /\ (probe.id_a = probe.id_b) <=> same
            /\ probe.eq <=> same

\* C4: while an entry for a job id is in the store, its status changes only
\* from RUNNING to COMPLETED or from RUNNING to FAILED.
C4_StatusTransitions ==
    [][\A id \in DOMAIN store \cap DOMAIN store' :
          LET old == store[id].job.status
              new == store'[id].job.status
          IN  new = old \/ (old = RUNNING /\ new \in {COMPLETED, FAILED})]_vars

\* C5: at most one update carrying a build outcome is ever applied to the
\* record of a job.
C5_OutcomeAppliedAtMostOnce ==
    \A id \in DOMAIN applied : applied[id] <= 1

\* the step in which caller t starts create_job
Starts(t) == caller'[t].calls = caller[t].calls + 1

Dedups(t) ==
    /\ caller'[t].pc = "done"
    /\ caller'[t].result =
           [kind |-> "job_id", job_id |-> caller'[t].job_id, detail |-> None]
    /\ ~caller'[t].submitted
    /\ store' = store
    /\ queue' = queue
    /\ available_gpu' = available_gpu
    /\ available_cpu' = available_cpu

\* C6 as stated: a create_job call made while a record for the same
\* parameters is in the store returns the job id, submits nothing, adds no
\* entry and reserves no memory.
C6_IdempotentWhileStored ==
    [][\A t \in Callers :
          (Starts(t) /\ caller'[t].job_id \in DOMAIN store) => Dedups(t)]_vars

\* C6 (amended): a create_job call made while a record for the same
\* parameters is in the store and has not passed its TTL returns the job id,
\* submits nothing, adds no entry and reserves no memory, whatever the status
\* of the record.
C6_IdempotentWhileUnexpired ==
    [][\A t \in Callers :
          (/\ Starts(t)
           /\ caller'[t].job_id \in DOMAIN store
           /\ Unexpired(store[caller'[t].job_id].timestamp)) => Dedups(t)]_vars

C6_Witness ==
    \E t \in Callers :
        /\ caller[t].pc = "done"
        /\ caller[t].result.kind = "job_id"
        /\ ~caller[t].submitted
        /\ caller[t].job_id \in DOMAIN store
        /\ store[caller[t].job_id].job.status = COMPLETED

\* C7: in every reachable state of the service 0 <= available <= total, for
\* GPU and for CPU.
C7_LedgerWithinTotals ==
    /\ 0 <= available_gpu /\ available_gpu <= total_gpu
    /\ 0 <= available_cpu /\ available_cpu <= total_cpu

C7_Witness ==
    /\ Quiescent
    /\ \E id \in DOMAIN applied : applied[id] >= 1
    /\ \E w \in Workers : worker[w].pc = "idle"
    /\ available_gpu < total_gpu

\* C8: allocate subtracts both amounts and returns true only if both fit;
\* otherwise it returns false and leaves both counters unchanged.
C8_AllocateAllOrNothing ==
    [][\A c \in Clients :
          (held[c].pc \in {"idle", "released"} /\ held'[c] # held[c]) =>
              IF available_gpu >= held'[c].gpu /\ available_cpu >= held'[c].cpu
              THEN /\ held'[c].pc = "holding"
                   /\ available_gpu' = available_gpu - held'[c].gpu
                   /\ available_cpu' = available_cpu - held'[c].cpu
              ELSE /\ held'[c].pc = "refused"
                   /\ available_gpu' = available_gpu
                   /\ available_cpu' = available_cpu]_vars

\* a refusal for CPU alone, with the GPU amount fitting
C8_Witness ==
    \E c \in Clients :
        /\ held[c].pc = "refused"
        /\ available_gpu >= held[c].gpu
        /\ held[c].gpu > 0
        /\ available_cpu < held[c].cpu

\* C9: when every client that allocated has released, the ledger is back at
\* its initial values.
C9_MatchedPairsRestoreLedger ==
    (\A c \in Clients : held[c].pc # "holding" /\ ~held[c].unmatched)
    => (available_gpu = total_gpu /\ available_cpu = total_cpu)

C9_Witness ==
    /\ \A c \in Clients :
          /\ held[c].pc = "released"
          /\ ~held[c].unmatched
          /\ held[c].gpu > 0
          /\ held[c].cpu > 0
    /\ available_gpu = total_gpu

\* C10: when the reservation in create_job fails after the add, the ledger
\* and the queue are untouched, and when CapacityError is raised the store
\* holds no entry for the job id and the call has submitted nothing.
C10_RollbackLeavesNoResidue ==
    [][\A t \in Callers :
          /\ (caller[t].pc = "allocate" /\ caller'[t].pc = "rollback")
             => /\ available_gpu' = available_gpu
                /\ available_cpu' = available_cpu
                /\ queue' = queue
          /\ (caller[t].pc = "rollback" /\ caller'[t].pc = "done")
             => /\ caller'[t].result.kind = "CapacityError"
                /\ caller[t].job_id \notin DOMAIN store'
                /\ ~caller'[t].submitted
                /\ queue' = queue
                /\ available_gpu' = available_gpu
                /\ available_cpu' = available_cpu]_vars

C10_Witness ==
    \E t \in Callers :
        /\ caller[t].pc = "done"
        /\ caller[t].result.kind = "CapacityError"
        /\ caller[t].result.detail = "Insufficient available resources"
        /\ caller[t].job_id \notin DOMAIN store

----------------------------------------------------------------------------
(* Properties of _execute_workflow *)

\* the step in which worker w leaves position pc
Leaves(w, pc) == worker[w].pc = pc /\ worker'[w].pc # pc

LedgerUnchanged == available_gpu' = available_gpu /\ available_cpu' = available_cpu

\* the step of worker w gives the amounts of its workflow back, once
ReleasesOnce(w) ==
    /\ worker'[w].pc = "idle"
    /\ available_gpu' = available_gpu + worker[w].workflow.gpu_memory_required
    /\ available_cpu' = available_cpu + worker[w].workflow.cpu_memory_required

\* C14: when the builder has returned and the store entry exists, a
\* reported success makes the record COMPLETED with file_name the returned
\* artifact name and no error_message, a reported failure makes it FAILED
\* with error_message the returned message and no file_name; the worker
\* then releases the workflow's gpu and cpu amounts once, and not before.
C14_BuilderOutcomeRecorded ==
    [][\A w \in Workers :
          LET id == worker[w].workflow.job_id
              out == worker[w].outcome
          IN  /\ (Leaves(w, "check") /\ ~worker'[w].deleted)
                 => (worker'[w].pc = "update" /\ LedgerUnchanged)
              /\ (Leaves(w, "update") /\ id \in DOMAIN store)
                 => /\ worker'[w].pc = "release"
                    /\ LedgerUnchanged
                    /\ id \in DOMAIN store'
                    /\ IF out.success
                       THEN /\ store'[id].job.status = COMPLETED
                            /\ store'[id].job.file_name = out.index_path
                            /\ store'[id].job.error_message = None
                       ELSE /\ store'[id].job.status = FAILED
                            /\ store'[id].job.error_message = out.msg
                            /\ store'[id].job.file_name = None
              /\ (Leaves(w, "release") /\ ~out.raised /\ ~worker[w].deleted)
                 => ReleasesOnce(w)]_vars

\* a build has succeeded, its record is COMPLETED and the worker is done
C14_Witness ==
    /\ Quiescent
    /\ \E id \in DOMAIN store :
          /\ store[id].job.status = COMPLETED
          /\ store[id].job.file_name = "a.faiss"
          /\ store[id].job.error_message = None

\* C15: if the builder raises, the worker handles the exception: the job
\* record, if present, becomes FAILED with error_message the exception
\* text, and the workflow's gpu and cpu amounts are released exactly once.
C15_BuilderExceptionRecorded ==
    [][\A w \in Workers :
          LET id == worker[w].workflow.job_id
          IN  /\ (Leaves(w, "build") /\ worker'[w].outcome.raised)
                 => (worker'[w].pc = "except" /\ LedgerUnchanged)
              /\ Leaves(w, "except")
                 => /\ worker'[w].pc = "release"
                    /\ LedgerUnchanged
                    /\ IF id \in DOMAIN store
                       THEN /\ id \in DOMAIN store'
                            /\ store'[id].job.status = FAILED
                            /\ store'[id].job.error_message = worker[w].outcome.msg
                       ELSE store' = store
              /\ (Leaves(w, "release") /\ worker[w].outcome.raised)
                 => ReleasesOnce(w)]_vars

C15_Witness ==
    /\ Quiescent
    /\ \E id \in DOMAIN store :
          /\ store[id].job.status = FAILED
          /\ store[id].job.error_message = "exception text"

\* C16: if the store entry of the job has disappeared by the time the
\* builder returns, the worker issues no update and creates no entry for
\* the id, and still releases the workflow's gpu and cpu amounts.
C16_DeletedJobSkipsUpdate ==
    [][\A w \in Workers :
          LET id == worker[w].workflow.job_id
          IN  /\ (Leaves(w, "check") /\ ~get(store, id).found)
                 => /\ worker'[w].pc = "release"
                    /\ worker'[w].deleted
                    /\ id \notin DOMAIN store'
                    /\ \A k \in DOMAIN store' : k \in DOMAIN store /\ store'[k] = store[k]
                    /\ LedgerUnchanged
              /\ (Leaves(w, "release") /\ worker[w].deleted)
                 => (ReleasesOnce(w) /\ store' = store)]_vars

\* the builder has returned, the entry was gone and the worker is about to
\* release
C16_Witness ==
    \E w \in Workers :
        /\ worker[w].pc = "release"
        /\ worker[w].deleted
        /\ ~worker[w].outcome.raised
        /\ worker[w].workflow.job_id \notin DOMAIN store

\* C17: if the worker's own allocate fails, the worker writes FAILED with
\* the message "Worker has not enough memory available at this time" to the
\* job record, does not invoke the builder and performs no release.
C17_WorkerWithoutMemoryFails ==
    [][\A w \in Workers :
          LET id == worker[w].workflow.job_id
          IN  /\ Leaves(w, "allocate")
                 => LET workflow == worker[w].workflow
                    IN  IF /\ available_gpu >= workflow.gpu_memory_required
                           /\ available_cpu >= workflow.cpu_memory_required
                        THEN worker'[w].pc = "build"
                        ELSE worker'[w].pc = "no_memory" /\ LedgerUnchanged
              /\ Leaves(w, "no_memory")
                 => /\ worker'[w].pc = "idle"
                    /\ LedgerUnchanged
                    /\ IF id \in DOMAIN store
                       THEN /\ id \in DOMAIN store'
                            /\ store'[id].job.status = FAILED
                            /\ store'[id].job.error_message =
                                   "Worker has not enough memory available at this time"
                       ELSE store' = store]_vars

C17_Witness ==
    /\ \A w \in Workers : worker[w].pc = "idle"
    /\ \E id \in DOMAIN store :
          /\ store[id].job.status = FAILED
          /\ store[id].job.error_message =
                 "Worker has not enough memory available at this time"

----------------------------------------------------------------------------
(* Properties of the shutdown *)

Returns == shutdown = "called" /\ shutdown' = "returned"

Finished == queue = <<>> /\ \A w \in Workers : worker[w].pc = "idle"

Terminal(id) == store[id].job.status \in {COMPLETED, FAILED}

\* C18 as stated: when shutdown returns, every workflow submitted before
\* shutdown was called has finished, and for each of them the record stored
\* under its job id, if there is one, has a terminal status.
C18_ShutdownLeavesTerminalRecords ==
    [][Returns =>
          /\ Finished
          /\ \A f \in futures :
                f.job_id \in DOMAIN store => Terminal(f.job_id)]_vars

\* C18 (amended): when shutdown returns, every workflow submitted before
\* shutdown was called has finished, and for each of them the record that
\* the submitting create_job call inserted, if it is still in the store,
\* has a terminal status.
C18_ShutdownLeavesOwnRecordsTerminal ==
    [][Returns =>
          /\ Finished
          /\ \A f \in futures :
                (/\ f.job_id \in DOMAIN store
                 /\ inserted[f.job_id] = [by |-> f.by, call |-> f.call])
                => Terminal(f.job_id)]_vars

\* shutdown has returned and the record of a workflow submitted before it is
\* in the store
C18_Witness ==
    /\ shutdown = "returned"
    /\ \E f \in futures :
          /\ f.job_id \in DOMAIN store
          /\ inserted[f.job_id] = [by |-> f.by, call |-> f.call]
          /\ Terminal(f.job_id)

----------------------------------------------------------------------------
(* Properties of create_job on a store that is full *)

\* the step in which the add of caller t's create_job is refused
AddRefused(t) ==
    /\ caller[t].pc = "add"
    /\ caller'[t].pc # "add"
    /\ Cardinality(DOMAIN store) >= max_size

\* what C12 requires of a refused add: CapacityError, nothing reserved,
\* nothing submitted, store, ledger and queue untouched
FailsCleanly(t) ==
    /\ caller'[t].pc = "done"
    /\ caller'[t].result.kind = "CapacityError"
    /\ ~caller'[t].submitted
    /\ store' = store
    /\ queue' = queue
    /\ available_gpu' = available_gpu
    /\ available_cpu' = available_cpu

\* C12 as stated: if the store's add returns false, create_job fails with
\* CapacityError without reserving memory or submitting a workflow, and the
\* store and the ledger are as they were before the call: the call has not
\* changed the store in its earlier get either.
C12_AddRefusedNothingChanged ==
    [][\A t \in Callers :
          AddRefused(t) => (FailsCleanly(t) /\ ~caller[t].evicted)]_vars

\* C12 (amended): if the store's add returns false, create_job fails with
\* CapacityError without reserving memory or submitting a workflow, and the
\* refused add and the failure leave the store, the ledger and the queue as
\* they were.
C12_AddRefusedFailsCleanly ==
    [][\A t \in Callers : AddRefused(t) => FailsCleanly(t)]_vars

C12_Witness ==
    \E t \in Callers :
        /\ caller[t].pc = "done"
        /\ caller[t].result.kind = "CapacityError"
        /\ caller[t].result.detail = "Could not add item to request store"
        /\ Cardinality(DOMAIN store) = max_size
        /\ caller[t].job_id \notin DOMAIN store

----------------------------------------------------------------------------
(* Properties of create_job on a hash collision *)

\* caller t starts create_job while the store holds, under the job id of
\* the request, a record with other request parameters
StartsOnCollision(t) ==
    /\ Starts(t)
    /\ caller'[t].job_id \in DOMAIN store
    /\ ~RequestParametersEq(store[caller'[t].job_id].job.request_parameters,
                            create_request_parameters(caller'[t].params))

Refuses(t) ==
    /\ caller'[t].pc = "done"
    /\ caller'[t].result.kind = "HashCollisionError"
    /\ ~caller'[t].submitted
    /\ store' = store
    /\ queue' = queue
    /\ available_gpu' = available_gpu
    /\ available_cpu' = available_cpu

\* C13 as stated: if the store holds, under the computed job id, a record
\* whose request parameters are not equal to the new request's, create_job
\* raises HashCollisionError and neither modifies the store, reserves
\* memory, nor submits a workflow.
C13_CollisionWhileStored ==
    [][\A t \in Callers : StartsOnCollision(t) => Refuses(t)]_vars

\* C13 (amended): if the store holds, under the computed job id, a record
\* that has not passed its TTL and whose request parameters are not equal
\* to the new request's, create_job raises HashCollisionError and neither
\* modifies the store, reserves memory, nor submits a workflow.
C13_CollisionWhileUnexpired ==
    [][\A t \in Callers :
          (/\ StartsOnCollision(t)
           /\ Unexpired(store[caller'[t].job_id].timestamp)) => Refuses(t)]_vars

C13_Witness ==
    \E t \in Callers :
        /\ caller[t].pc = "done"
        /\ caller[t].result.kind = "HashCollisionError"
        /\ caller[t].job_id \in DOMAIN store
        /\ store[caller[t].job_id].job.request_parameters
               # create_request_parameters(caller[t].params)

----------------------------------------------------------------------------
(* Properties of the store and of the status route on their own *)

\* the step in which a client of the store performs operation op
Acted(op) == last'.op = op /\ (last' # last \/ store' # store)

\* the age of an entry has reached the TTL
Expired(timestamp) == ttl_seconds.set /\ now - timestamp >= ttl_seconds.seconds

\* C11: the store never holds more than max_size entries, and an add on a
\* store that already holds max_size entries returns false and leaves the
\* map (keys, records and timestamps) unchanged.
C11_StoreBoundedByMaxSize ==
    /\ [](Cardinality(DOMAIN store) <= max_size)
    /\ [][(Acted("add") /\ Cardinality(DOMAIN store) >= max_size)
              => (~last'.ok /\ store' = store)]_vars

C11_Witness ==
    /\ last.op = "add"
    /\ ~last.ok
    /\ Cardinality(DOMAIN store) = max_size
    /\ last.job_id \notin DOMAIN store

\* C19: with a TTL set, a get of an expired entry returns no job and
\* removes the entry, a get never returns an expired entry, and after a
\* sweep no expired entry remains in the store.
C19_ExpiredEntriesAreGone ==
    [][/\ (/\ Acted("get")
           /\ last'.job_id \in DOMAIN store
           /\ Expired(store[last'.job_id].timestamp))
          => (~last'.ok /\ last'.job_id \notin DOMAIN store')
       /\ (Acted("get") /\ last'.ok)
          => (/\ last'.job_id \in DOMAIN store
              /\ ~Expired(store[last'.job_id].timestamp)
              /\ store' = store)
       /\ Acted("cleanup")
          => \A id \in DOMAIN store' : ~Expired(store'[id].timestamp)]_vars

\* a get found an expired entry that the sweeper had not removed yet
C19_Witness ==
    /\ ttl_seconds.set
    /\ last.op = "get"
    /\ ~last.ok
    /\ last.removed
    /\ last.job_id \notin DOMAIN store

\* C20: GET /_status/{job_id} answers 404 exactly when the store's get
\* returns no job for the id, and otherwise goes on to answer 200 with the
\* status that the job returned by get has when the route reads it, one of
\* the three job statuses, which is the status of the stored record as long
\* as that job is the one in the store.
C20_StatusNotFoundIffGetMisses ==
    /\ [][(Resting /\ reader' # reader /\ reader'.pc \in {"status", "done"}) =>
             LET g == get(store, reader'.job_id)
             IN  /\ (reader'.pc = "done" /\ reader'.code = 404) <=> ~g.found
                 /\ g.found <=> reader'.pc = "status"]_vars
    /\ [][(reader.pc = "status" /\ reader'.pc # "status") =>
             /\ reader'.task_status \in {RUNNING, COMPLETED, FAILED}
             /\ reader'.task_status = HeldJob.status
             /\ reader.stored
                => reader'.task_status = store[reader.job_id].job.status]_vars
    /\ [][(reader.pc # "done" /\ reader'.pc = "done") => reader'.code \in {200, 404}]_vars

\* 404 for a job that was stored and has been evicted by its TTL
C20_Witness ==
    /\ reader.pc = "done"
    /\ reader.code = 404
    /\ reader.removed

\* the age of an entry
Age(timestamp) == now - timestamp

\* C21: with a TTL set, an entry is evicted, by get or by the sweeper, only
\* if it is strictly older than the TTL: a get of an entry whose age is at
\* most the TTL returns it and leaves it stored, a sweep keeps every such
\* entry, and get and the sweeper decide on the same condition.
C21_EvictedOnlyWhenStrictlyOlder ==
    [][ttl_seconds.set =>
          /\ (/\ Acted("get")
              /\ last'.job_id \in DOMAIN store
              /\ Age(store[last'.job_id].timestamp) <= ttl_seconds.seconds)
             => (last'.ok /\ store' = store)
          /\ Acted("cleanup")
             => \A id \in DOMAIN store :
                    Age(store[id].timestamp) <= ttl_seconds.seconds
                        => (id \in DOMAIN store' /\ store'[id] = store[id])
          /\ Acted("cleanup")
             => \A id \in DOMAIN store :
                    id \in DOMAIN store' <=> get(store, id).found]_vars

\* C22: with no TTL configured no sweep runs and no entry leaves the store
\* by its age: a get of a stored id returns its job and leaves the store as
\* it is, however old the entry, and an entry leaves the store by a delete
\* of its id and in no other way.
C22_NoTtlNoEviction ==
    [][~ttl_seconds.set =>
          /\ ~Acted("cleanup")
          /\ (Acted("get") /\ last'.job_id \in DOMAIN store)
             => (/\ last'.ok
                 /\ last'.task_status = store[last'.job_id].job.status
                 /\ store' = store)
          /\ \A id \in DOMAIN store :
                 id \notin DOMAIN store'
                     => (Acted("delete") /\ last'.job_id = id)]_vars

\* a get returned an entry as old as the longest configured TTL
C22_Witness ==
    /\ ~ttl_seconds.set
    /\ last.op = "get"
    /\ last.ok
    /\ last.job_id \in DOMAIN store
    /\ Age(store[last.job_id].timestamp) >= TtlSeconds

\* C23: a sweep removes every expired entry whatever its status, running
\* jobs included, and leaves every other entry in the store as it was.
C23_SweepIgnoresStatus ==
    [][Acted("cleanup") =>
          /\ DOMAIN store' = {id \in DOMAIN store : ~Expired(store[id].timestamp)}
          /\ \A id \in DOMAIN store' : store'[id] = store[id]]_vars

\* a sweep removed a running job and kept another entry
C23_Witness ==
    /\ last.op = "cleanup"
    /\ RUNNING \in last.swept
    /\ \E id \in DOMAIN store : ~Expired(store[id].timestamp)

\* C24: an update of an id that is not stored returns false and changes
\* nothing; an update of a stored id returns true, writes the fields of the
\* dictionary on that record, leaves its other fields and its timestamp as
\* they were, and leaves every other entry unchanged.
C24_UpdateChangesOnlyThePatch ==
    [][Acted("update") =>
          \E data \in UpdateData :
              /\ data.status = last'.task_status
              /\ IF last'.job_id \notin DOMAIN store
                 THEN ~last'.ok /\ store' = store
                 ELSE /\ last'.ok
                      /\ DOMAIN store' = DOMAIN store
                      /\ \A id \in DOMAIN store \ {last'.job_id} :
                             store'[id] = store[id]
                      /\ store'[last'.job_id].timestamp
                             = store[last'.job_id].timestamp
                      /\ \A f \in DOMAIN store[last'.job_id].job :
                             store'[last'.job_id].job[f]
                                 = IF f \in DOMAIN data THEN data[f]
                                   ELSE store[last'.job_id].job[f]]_vars

\* an update of an entry older than its creation, next to another entry
C24_Witness ==
    /\ last.op = "update"
    /\ last.ok
    /\ last.job_id \in DOMAIN store
    /\ store[last.job_id].job.status = last.task_status
    /\ Age(store[last.job_id].timestamp) > 0
    /\ Cardinality(DOMAIN store) > 1

----------------------------------------------------------------------------
(* Properties of the records of the service *)

\* C26: in every reachable state of the store a record whose file_name is
\* set has status COMPLETED_INDEX_BUILD: no running or failed record carries
\* a file name.
C26_FileNameOnlyWhenCompleted ==
    \A id \in DOMAIN store :
        store[id].job.file_name # None => store[id].job.status = COMPLETED

\* C27: for as long as an entry for a job id stays in the store its
\* timestamp does not change, whatever create_job calls, updates and sweeps
\* take place.
C27_TimestampImmutable ==
    [][\A id \in DOMAIN store \cap DOMAIN store' :
           store'[id].timestamp = store[id].timestamp]_vars

----------------------------------------------------------------------------
(* Properties of POST /_build *)

\* C28: POST /_build answers 429 exactly when create_job raised
\* HashCollisionError, 507 exactly when it raised CapacityError, and 200
\* with the job id exactly when create_job returned one.
C28_BuildStatusCodes ==
    \A t \in Callers :
        caller[t].pc = "done" =>
            /\ caller[t].response.status_code = 429
                   <=> caller[t].result.kind = "HashCollisionError"
            /\ caller[t].response.status_code = 507
                   <=> caller[t].result.kind = "CapacityError"
            /\ caller[t].response.status_code = 200
                   <=> caller[t].result.kind = "job_id"
            /\ caller[t].result.kind = "job_id"
                   => /\ caller[t].response.job_id = caller[t].result.job_id
                      /\ caller[t].response.job_id = caller[t].job_id

\* one request was answered 429 and another was answered 200 with its id
C28_Witness ==
    \E t, u \in Callers :
        /\ caller[t].pc = "done"
        /\ caller[t].result.kind = "HashCollisionError"
        /\ caller[t].response.status_code = 429
        /\ caller[u].pc = "done"
        /\ caller[u].response.status_code = 200
        /\ caller[u].response.job_id = caller[u].job_id

\* the step in which create_job calls submit_workflow
Submits(t) == caller[t].pc = "submit" /\ caller'[t].pc = "done"

\* the memory of the call of t is reserved in the ledger
Reserved(t) ==
    LET mem == calculate_memory_requirements(caller[t].params)
    IN  /\ available_gpu + mem.gpu <= total_gpu
        /\ available_cpu + mem.cpu <= total_cpu

\* C29: the record is added and the memory is reserved before the workflow
\* is submitted: at the moment create_job calls submit the memory of the
\* call is reserved and the store holds the entry for the job id.  An entry
\* whose age has reached the TTL by then is left out of the statement: the
\* store may have removed it as expired.
C29_EntryStoredAtSubmit ==
    [][\A t \in Callers :
           Submits(t) =>
               /\ Reserved(t)
               /\ ~Expired(caller[t].added_at)
                  => caller[t].job_id \in DOMAIN store]_vars

----------------------------------------------------------------------------
(* Properties of GET /_status next to an update *)

\* C25: a GET /_status that runs next to an update of the record reports
\* the values of (status, file_name, error_message) the record had before
\* an update or after it, never a mix of the two.
C25_StatusReportsOneVersion ==
    (reader.pc = "done" /\ reader.code = 200)
        => Reported([status |-> reader.task_status, file_name |-> reader.file_name,
                     error_message |-> reader.error_message]) \in reader.versions

----------------------------------------------------------------------------
(* Properties of the service under fair scheduling *)

\* create_job has returned the id after it submitted a workflow for it
Admitted(id) ==
    \E t \in Callers :
        /\ caller[t].pc = "done"
        /\ caller[t].submitted
        /\ caller[t].result.kind = "job_id"
        /\ caller[t].job_id = id

\* the record of the id is in the store with a terminal status
Settled(id) == id \in DOMAIN store /\ Terminal(id)

\* C30: under fair scheduling every job for which create_job returned an id
\* after submitting a workflow eventually has status COMPLETED_INDEX_BUILD
\* or FAILED_INDEX_BUILD in the store, unless its entry is evicted by the
\* TTL; with no TTL configured it always reaches a terminal status.  An
\* entry that is absent while a TTL is configured is counted as evicted.
C30_AdmittedJobsSettle ==
    \A p \in Requests :
        LET id == generate_job_id(create_request_parameters(p))
        IN  Admitted(id)
                ~> (Settled(id) \/ (ttl_seconds.set /\ id \notin DOMAIN store))

----------------------------------------------------------------------------
(* Properties of the memory estimate *)

\* the formulas of the estimate, in units of 1/20 byte: cpu is the index
\* memory plus the vector memory, gpu is 1.5 times the index memory plus the
\* vector memory
EstimateFollowsFormulas ==
    estimate.done =>
        LET p == estimate.params
            vector_memory == p.dimension * p.doc_count * 4 * 20
            index_cpu_memory == (p.dimension * 4 + p.m * 8) * 22 * p.doc_count
        IN  /\ estimate.cpu = index_cpu_memory + vector_memory
            /\ 2 * estimate.gpu = 3 * index_cpu_memory + 2 * vector_memory

\* C31: the estimate of a request is gpu = 1.5 * index_cpu_memory +
\* vector_memory and cpu = index_cpu_memory + vector_memory, and for every
\* valid request gpu >= cpu > 0.
C31_EstimateFormulasAndSigns ==
    /\ EstimateFollowsFormulas
    /\ estimate.done => (estimate.gpu >= estimate.cpu /\ estimate.cpu > 0)

-----------------------------------------------------------------------------
\* Properties of the index-builder adapter

\* C32: the adapter returns (False, None, engine error) whenever the engine
\* result carries no artifact name and (True, artifact name, None)
\* otherwise; so a job the worker marks FAILED after an engine failure
\* carries the engine's error as error_message.
C32_AdapterCarriesEngineError ==
    [][\A w \in Workers :
          /\ (Leaves(w, "build") /\ ~worker'[w].outcome.raised) =>
                 LET r == worker'[w].result
                     out == worker'[w].outcome
                 IN  IF r.file_name = None
                     THEN /\ ~out.success
                          /\ out.index_path = None
                          /\ out.msg = r.error
                     ELSE /\ out.success
                          /\ out.index_path = r.file_name
                          /\ out.msg = None
          /\ (/\ Leaves(w, "update")
              /\ ~worker[w].outcome.success
              /\ worker[w].workflow.job_id \in DOMAIN store') =>
                 LET job == store'[worker[w].workflow.job_id].job
                 IN  /\ job.status = FAILED
                     /\ job.error_message = worker[w].result.error]_vars

C32_Witness ==
    \E w \in Workers :
        /\ worker[w].pc = "release"
        /\ worker[w].result.error = "engine error"
        /\ worker[w].workflow.job_id \in DOMAIN store
        /\ store[worker[w].workflow.job_id].job.status = FAILED
        /\ store[worker[w].workflow.job_id].job.error_message = "engine error"

-----------------------------------------------------------------------------
\* Properties of the listing

\* C33: GET /_jobs returns a map holding exactly the job records currently
\* in the store, keyed by job id: the job it lists has the values of
\* (status, file_name, error_message) that the record had when get_jobs was
\* called or has had after an update since.
C33_ListingIsTheStore ==
    (reader.pc = "jobs_done" /\ reader.job_id # NoId)
        => Reported([status |-> reader.task_status, file_name |-> reader.file_name,
                     error_message |-> reader.error_message]) \in reader.versions

-----------------------------------------------------------------------------
\* Properties of the pool and its queue

\* the pool threads that are running _execute_workflow
Executing == {w \in Workers : worker[w].pc # "idle"}

\* C34: at most max_workers workflows are executing at any time; the other
\* submitted workflows wait in the executor's queue, and while they wait
\* their job records, as long as they are in the store, stay
\* RUNNING_INDEX_BUILD.
C34_QueuedJobsStayRunning ==
    /\ Cardinality(Executing) <= max_workers
    /\ \A i \in 1..Len(queue) :
          queue[i].job_id \in DOMAIN store =>
              store[queue[i].job_id].job.status = RUNNING

-----------------------------------------------------------------------------
\* Properties of the rollback

\* the rollback delete of caller t removes an entry
RollbackRemoves(t) ==
    /\ caller[t].pc = "rollback"
    /\ caller'[t].pc = "done"
    /\ caller[t].job_id \in DOMAIN store
    /\ caller[t].job_id \notin DOMAIN store'

\* C35: the rollback delete of a CreateJob call whose reservation failed
\* removes only the entry this call inserted, and never the record of a job
\* for which another CreateJob call with the same id has reserved memory
\* and submitted a workflow.
C35_RollbackRemovesOwnEntryOnly ==
    [][\A t \in Callers :
          RollbackRemoves(t) =>
              /\ inserted[caller[t].job_id] = [by |-> t, call |-> caller[t].calls]
              /\ ~\E f \in futures :
                     /\ f.job_id = caller[t].job_id
                     /\ <<f.by, f.call>> # <<t, caller[t].calls>>]_vars

-----------------------------------------------------------------------------
\* Properties of the record a build outcome is written to

\* pool thread w writes the outcome of its build to the record under its
\* workflow's job id
WritesOutcome(w) ==
    /\ worker[w].pc \in {"update", "except"}
    /\ worker'[w].pc = "release"
    /\ worker[w].workflow.job_id \in DOMAIN store

\* the CreateJob calls that have submitted a workflow for job_id
SubmittersOf(job_id) ==
    {[by |-> f.by, call |-> f.call] : f \in {g \in futures : g.job_id = job_id}}

\* C36: a build outcome is written only to the record inserted by the
\* CreateJob call that submitted the build: a record added under the same
\* id by a later CreateJob call (one that found no record of the earlier
\* call) does not receive the earlier build's outcome.
C36_OutcomeOnlyToOwnRecord ==
    [][\A w \in Workers :
          (/\ WritesOutcome(w)
           /\ ~caller[inserted[worker[w].workflow.job_id].by].raced) =>
              inserted[worker[w].workflow.job_id]
                  \in SubmittersOf(worker[w].workflow.job_id)]_vars

-----------------------------------------------------------------------------
\* Properties of the reservation made at admission

\* C37: a job that CreateJob admitted while no other job held memory (here:
\* the job of the only CreateJob call made so far) is never marked
\* FAILED_INDEX_BUILD by the worker for lack of memory.
C37_AdmittedAloneNeverStarved ==
    [][\A w \in Workers :
          (/\ ncalls = 1
           /\ worker[w].pc = "no_memory"
           /\ worker'[w].pc = "idle"
           /\ worker[w].workflow.job_id \in DOMAIN store') =>
              store'[worker[w].workflow.job_id].job.status # FAILED]_vars

-----------------------------------------------------------------------------
\* Properties of the capacity rejection

\* the step in which caller t's create_job fails because add returned False
RejectedForCapacity(t) ==
    /\ caller[t].pc = "add"
    /\ caller'[t].pc = "done"
    /\ caller'[t].result.kind = "CapacityError"
    /\ caller'[t].result.detail = "Could not add item to request store"

\* the entries of the store that have not passed their TTL
UnexpiredEntries == {k \in DOMAIN store : ~Expired(store[k].timestamp)}

\* C38 (as stated): create_job is rejected for store capacity only when the
\* store holds max_size unexpired entries; entries past their TTL that
\* nothing has removed yet do not make add return false.
C38_RejectedOnlyWhenFullOfUnexpired ==
    [][\A t \in Callers :
          RejectedForCapacity(t) => Cardinality(UnexpiredEntries) >= max_size]_vars

\* C38 (amended): create_job is rejected for store capacity only when the
\* store holds max_size entries at the time of the add, the entries past
\* their TTL that nothing has removed yet included.
C38_RejectedOnlyWhenFull ==
    [][\A t \in Callers :
          RejectedForCapacity(t) => Cardinality(DOMAIN store) >= max_size]_vars

\* a call rejected by a store whose only entry is past its TTL
C38_Witness ==
    \E t \in Callers :
        /\ caller[t].pc = "done"
        /\ caller[t].result.detail = "Could not add item to request store"
        /\ Cardinality(DOMAIN store) = max_size
        /\ UnexpiredEntries = {}

-----------------------------------------------------------------------------
\* Properties of a submit after shutdown

\* the step in which the executor refuses the submit of caller t
SubmitRefused(t) ==
    /\ caller[t].pc = "submit"
    /\ caller'[t].pc = "done"
    /\ caller'[t].result.kind = "RuntimeError"

\* C39: when submit is refused because the executor has been shut down, the
\* create_job call leaves no residue: no RUNNING_INDEX_BUILD record remains
\* under its job id and the gpu and cpu amounts it reserved are back in the
\* ledger.
C39_RefusedSubmitLeavesNoResidue ==
    [][\A t \in Callers :
          SubmitRefused(t) =>
              LET mem == calculate_memory_requirements(caller[t].params)
              IN  /\ caller[t].job_id \in DOMAIN store' =>
                         store'[caller[t].job_id].job.status # RUNNING
                  /\ available_gpu' = available_gpu + mem.gpu
                  /\ available_cpu' = available_cpu + mem.cpu]_vars

====
